---- MODULE Spec2Model ----
(***************************************************************************)
(* Selection engine of the RAMP module planner (IE650-RAMP/ui).            *)
(*                                                                         *)
(* The planner is a React component; its state is the set of useState      *)
(* hooks of ModulePlanner.  Two revisions of the component are modelled:   *)
(*   - the per-semester planner, src/components/ui/module-planner.tsx,     *)
(*     whose selectedModules maps a semester number to a list of uuids;    *)
(*   - the flat planner, src/unnamed/part_005, whose selectedModules is a  *)
(*     list of uuids of module instances pinned to a semester.             *)
(* An event handler runs to completion against the state of the render     *)
(* that created it; the functional updates it queues with                  *)
(* setSelectedModules(prev => ...) are applied in order afterwards.        *)
(***************************************************************************)
EXTENDS Integers, Sequences, FiniteSets, TLC

\* Number of semester columns modelled (availableSemesters = 1..MaxSemester).
MaxSemester == 2

\* Depth of the call stack at which the engine throws RangeError.
StackLimit == 5

\* Module codes of the modelled catalogs, in catalog order.
CodeList == <<"A", "B", "C">>

Codes == {CodeList[i] : i \in DOMAIN CodeList}

VARIABLES
    modules,            \* useState<Module[]>: the loaded catalog
    selectedModules,    \* useState: the Selection Set
    openDialog,         \* useState(false): confirmation dialog shown
    dialogModules,      \* useState<Module[]>: dependents listed in the dialog
    moduleToDeselect,   \* useState<Module | null>: target of the pending deselection
    outcome,            \* what the last handler did (alert shown, update queued, exception)
    callArg,            \* arguments of the last direct call of a pure function
    callResult,         \* value that call returned
    studyRequirements,  \* useState<SubjectAreaRequirement[]>
    isLoading,          \* useState(false): "Loading modules..." shown
    error,              \* useState<string | null>: load-error message
    numberOfSemesters,  \* useState<number>
    firstSemesterType,  \* useState<'FSS' | 'HWS'>
    selectedStudyProgramUri, \* useState<string>
    availableSemesters, \* useState<number[]>: the semester columns
    searchTerm,         \* useState<string>
    layout,             \* useState<string>
    hideUnfulfilled,    \* useState(false)
    hideSelected,       \* useState(false)
    mounted,            \* the effects of the first render have run
    studyPrograms,      \* useState<StudyProgram[]>: the uris of the programs
    programsRequest,    \* the getStudyPrograms() promise: "none", "pending", "settled"
    fetches,            \* the getModules() promises started so far, in order
    storage,            \* localStorage item 'selectedModules'
    storageWritable,    \* localStorage.setItem succeeds (quota not exhausted)
    renderError,        \* exception that escaped an effect and unmounted the planner
    cache,              \* sparql-fetcher: the entries of the NodeCache, by key
    requests            \* sparql-fetcher: the fetches of /api/sparql issued so far

\* the Selection Set and the dialog of the selection engine
engine == <<modules, selectedModules, openDialog, dialogModules, moduleToDeselect, outcome>>

\* the hooks of the view settings
settings == <<numberOfSemesters, firstSemesterType, selectedStudyProgramUri,
              searchTerm, layout, hideUnfulfilled, hideSelected>>

\* the hooks of the catalog fetch
loading == <<isLoading, error, availableSemesters, studyPrograms, programsRequest, fetches>>

\* the state of the module sparql-fetcher
fetcher == <<cache, requests>>

\* everything around the selection engine but the stored Selection Set
shell == <<studyRequirements, settings, loading, mounted, storageWritable, fetcher>>

vars == <<engine, callArg, callResult, shell, storage, renderError>>

\* null / undefined module
NoModule == [uuid |-> 0, code |-> "", prerequisiteCodes |-> {}]

\* no direct call made
NoCall == [fn |-> "none"]

-----------------------------------------------------------------------------
(* Array helpers *)

\* Array.prototype.includes
Includes(seq, x) == \E i \in DOMAIN seq : seq[i] = x

\* Mutant: the filter keeps every element.
FilterOut_KeepsAll(seq, u) == seq

\* array.filter((uuid) => uuid !== u)
FilterOut(seq, u) == SelectSeq(seq, LAMBDA x : x # u)

\* Array.prototype.find on m.uuid === uuid; NoModule for undefined
FindByUuid(mods, uuid) ==
    IF \E i \in DOMAIN mods : mods[i].uuid = uuid
    THEN mods[CHOOSE i \in DOMAIN mods :
                 /\ mods[i].uuid = uuid
                 /\ \A j \in 1..(i - 1) : mods[j].uuid # uuid]
    ELSE NoModule

\* Array.prototype.find on m.code === code; NoModule for undefined
FindByCode(mods, code) ==
    IF \E i \in DOMAIN mods : mods[i].code = code
    THEN mods[CHOOSE i \in DOMAIN mods :
                 /\ mods[i].code = code
                 /\ \A j \in 1..(i - 1) : mods[j].code # code]
    ELSE NoModule

-----------------------------------------------------------------------------
(* Catalogs.  getModules returns one binding per module URI (GROUP BY      *)
(* ?module) and fetchModuleData gives each a fresh uuid; the code is the   *)
(* last segment of the URI.  Prerequisite codes are unconstrained, so a    *)
(* catalog may be malformed (a module listing itself, or a cycle).         *)

Catalog(pre) ==
    [i \in DOMAIN CodeList |->
        [uuid |-> i, code |-> CodeList[i], prerequisiteCodes |-> pre[CodeList[i]]]]

Catalogs == {Catalog(pre) : pre \in [Codes -> SUBSET Codes]}

\* A prerequisite code of the knowledge graph that is the code of no module
\* of the study program: the query takes the prerequisites of a module from
\* the whole graph, the modules from one program.
ForeignCode == "X"

\* Catalogs in which at least one module lists the foreign code.
DanglingCatalogs ==
    {Catalog(pre) : pre \in {p \in [Codes -> SUBSET (Codes \cup {ForeignCode})] :
                                \E c \in Codes : ForeignCode \in p[c]}}

Uuids(mods) == {mods[i].uuid : i \in DOMAIN mods}

Semesters == 1..MaxSemester

-----------------------------------------------------------------------------
(* Per-semester planner: src/components/ui/module-planner.tsx *)

\* selectedModules[sem] || []
Bucket(sel, sem) == IF sem \in DOMAIN sel THEN sel[sem] ELSE <<>>

\* Object.keys(selectedModules): integer keys in ascending order
Keys(sel) ==
    LET top == IF DOMAIN sel = {} THEN 0
               ELSE CHOOSE k \in DOMAIN sel : \A j \in DOMAIN sel : j <= k
    IN SelectSeq([i \in 1..top |-> i], LAMBDA k : k \in DOMAIN sel)

\* Object.values(selectedModules).flat().includes(uuid)
IsSelectedAnywhere(sel, uuid) == \E k \in DOMAIN sel : Includes(sel[k], uuid)

\* Object.entries(selectedModules).filter(([_, uuids]) => uuids.includes(uuid)).map(sem)
SemestersContaining(sel, uuid) ==
    SelectSeq(Keys(sel), LAMBDA k : Includes(sel[k], uuid))

\* Object.keys(selectedModules).find(sem => selectedModules[sem].includes(uuid)); 0 for undefined
FirstSemesterContaining(sel, uuid) ==
    LET s == SemestersContaining(sel, uuid)
    IN IF Len(s) = 0 THEN 0 ELSE s[1]

\* Mutant: the check accepts a prerequisite selected in any semester.
arePrerequisitesFulfilled_AnySemester(mods, sel, module, currentSemester) ==
    \A prereqCode \in module.prerequisiteCodes :
        \E sem \in DOMAIN sel :
            LET prereqModule == FindByCode(mods, prereqCode)
            IN /\ prereqModule # NoModule
               /\ Includes(sel[sem], prereqModule.uuid)

\* Mutant: the loop stops before the current semester (sem < currentSemester).
arePrerequisitesFulfilled_StrictlyEarlier(mods, sel, module, currentSemester) ==
    \A prereqCode \in module.prerequisiteCodes :
        \E sem \in 1..(currentSemester - 1) :
            LET prereqModule == FindByCode(mods, prereqCode)
            IN /\ prereqModule # NoModule
               /\ Includes(Bucket(sel, sem), prereqModule.uuid)

\* Mutant: a prerequisite code that names no module is skipped.
arePrerequisitesFulfilled_SkipsUnknown(mods, sel, module, currentSemester) ==
    \A prereqCode \in module.prerequisiteCodes :
        LET prereqModule == FindByCode(mods, prereqCode)
        IN \/ prereqModule = NoModule
           \/ \E sem \in 1..currentSemester :
                  Includes(Bucket(sel, sem), prereqModule.uuid)

arePrerequisitesFulfilled(mods, sel, module, currentSemester) ==
    \A prereqCode \in module.prerequisiteCodes :
        \E sem \in 1..currentSemester :
            LET modulesInSemester == Bucket(sel, sem)
                prereqModule == FindByCode(mods, prereqCode)
            IN /\ prereqModule # NoModule
               /\ Includes(modulesInSemester, prereqModule.uuid)

\* Mutant: the other semesters are never looked at.
isModuleSelectedElsewhere_Never(sel, uuid, currentSemester) == FALSE

\* Object.entries(selectedModules).some(([sem, uuids]) => sem !== semesterNumber && uuids.includes(uuid))
isModuleSelectedElsewhere(sel, uuid, currentSemester) ==
    \E sem \in DOMAIN sel : sem # currentSemester /\ Includes(sel[sem], uuid)

\* Mutant: the filter forgets that a dependent must be selected.
directDependents_IgnoresSelection(mods, sel, module) ==
    SelectSeq(mods, LAMBDA m : module.code \in m.prerequisiteCodes)

\* modules.filter(m => m.prerequisiteCodes.includes(module.code) && selected(m.uuid))
directDependents(mods, sel, module) ==
    SelectSeq(mods, LAMBDA m : /\ module.code \in m.prerequisiteCodes
                               /\ IsSelectedAnywhere(sel, m.uuid))

\* traverseDependencies pushes the direct dependents on dependentModules and
\* calls itself on each of them.  acc = [ok, list]: ok is FALSE once the
\* recursion has exceeded the call stack (RangeError), list is dependentModules.
RECURSIVE traverseDependencies(_, _, _, _, _)
RECURSIVE traverseEach(_, _, _, _, _, _)
traverseDependencies(mods, sel, module, acc, depth) ==
    IF ~acc.ok THEN acc
    ELSE IF depth > StackLimit THEN [ok |-> FALSE, list |-> acc.list]
    ELSE LET direct == directDependents(mods, sel, module)
         IN traverseEach(mods, sel, direct, 1,
                         [ok |-> TRUE, list |-> acc.list \o direct], depth)

traverseEach(mods, sel, direct, i, acc, depth) ==
    IF i > Len(direct) \/ ~acc.ok THEN acc
    ELSE traverseEach(mods, sel, direct, i + 1,
                      traverseDependencies(mods, sel, direct[i], acc, depth + 1), depth)

getDependentModules(mods, sel, moduleUuid) ==
    LET selectedModule == FindByUuid(mods, moduleUuid)
    IN IF selectedModule = NoModule THEN [ok |-> TRUE, list |-> <<>>]
       ELSE traverseDependencies(mods, sel, selectedModule,
                                 [ok |-> TRUE, list |-> <<>>], 1)

\* deselectModule queues the removal of moduleUuid from bucket semesterNumber
\* and calls itself for every dependent, which it locates in the render's
\* selectedModules.  acc = [ok, ops]: ops is the queue of removals <<sem, uuid>>.
RECURSIVE deselectModule(_, _, _, _, _)
RECURSIVE deselectEach(_, _, _, _, _)
deselectModule(mods, sel, moduleUuid, semesterNumber, acc) ==
    LET queued == [ok |-> TRUE, ops |-> Append(acc.ops, <<semesterNumber, moduleUuid>>)]
        deselectedModule == FindByUuid(mods, moduleUuid)
        dependentModules == getDependentModules(mods, sel, moduleUuid)
    IN IF ~acc.ok THEN acc
       ELSE IF deselectedModule = NoModule THEN queued
       ELSE IF ~dependentModules.ok THEN [ok |-> FALSE, ops |-> queued.ops]
       ELSE deselectEach(mods, sel, dependentModules.list, 1, queued)

deselectEach(mods, sel, dependents, i, acc) ==
    IF i > Len(dependents) \/ ~acc.ok THEN acc
    ELSE LET dependentSemester == FirstSemesterContaining(sel, dependents[i].uuid)
         IN deselectEach(mods, sel, dependents, i + 1,
                IF dependentSemester # 0
                THEN deselectModule(mods, sel, dependents[i].uuid, dependentSemester, acc)
                ELSE acc)

\* One queued update: prev => ({...prev, [sem]: prev[sem].filter(uuid => uuid !== u)}).
\* prev[sem] undefined makes the updater throw TypeError.
RECURSIVE ApplyRemovals(_, _, _)
ApplyRemovals(prev, ops, i) ==
    IF i > Len(ops) \/ ~prev.ok THEN prev
    ELSE LET sem == ops[i][1]
             u == ops[i][2]
         IN ApplyRemovals(
                IF sem \in DOMAIN prev.value
                THEN [ok |-> TRUE,
                      value |-> [prev.value EXCEPT ![sem] = FilterOut(@, u)]]
                ELSE [ok |-> FALSE, value |-> prev.value],
                ops, i + 1)

\* prev => ({...prev, [sem]: [...(prev[sem] || []), uuid]})
AssignToSemester(prev, sem, uuid) ==
    [k \in DOMAIN prev \cup {sem} |->
        IF k = sem THEN Append(Bucket(prev, sem), uuid) ELSE prev[k]]

\* The removals handleConfirmDeselection queues: the target from every bucket
\* holding it, then deselectModule for every listed dependent in every bucket
\* holding it.
RECURSIVE confirmSemesters(_, _, _, _, _, _)
confirmSemesters(mods, sel, uuid, sems, j, acc) ==
    IF j > Len(sems) \/ ~acc.ok THEN acc
    ELSE confirmSemesters(mods, sel, uuid, sems, j + 1,
                          deselectModule(mods, sel, uuid, sems[j], acc))

RECURSIVE confirmDialogModules(_, _, _, _, _)
confirmDialogModules(mods, sel, dialog, i, acc) ==
    IF i > Len(dialog) \/ ~acc.ok THEN acc
    ELSE confirmDialogModules(mods, sel, dialog, i + 1,
            confirmSemesters(mods, sel, dialog[i].uuid,
                             SemestersContaining(sel, dialog[i].uuid), 1, acc))

\* Mutant: only the listed dependents are removed, the target stays.
confirmRemovals_SkipsTarget(mods, sel, target, dialog) ==
    confirmDialogModules(mods, sel, dialog, 1, [ok |-> TRUE, ops |-> <<>>])

confirmRemovals(mods, sel, target, dialog) ==
    LET own == SemestersContaining(sel, target.uuid)
        first == [ok |-> TRUE, ops |-> [j \in DOMAIN own |-> <<own[j], target.uuid>>]]
    IN confirmDialogModules(mods, sel, dialog, 1, first)

\* Mutant: every module of the plan is toggled instead of removed, so one
\* that is absent is put back into the first semester.
RECURSIVE ToggleAll(_, _, _)
ToggleAll(prev, uuids, i) ==
    IF i > Len(uuids) THEN prev
    ELSE ToggleAll(
             IF IsSelectedAnywhere(prev, uuids[i])
             THEN [k \in DOMAIN prev |-> FilterOut(prev[k], uuids[i])]
             ELSE AssignToSemester(prev, 1, uuids[i]),
             uuids, i + 1)

applyDeselection_Toggle(mods, sel, target, dialog) ==
    [ok |-> TRUE,
     value |-> ToggleAll(sel, <<target.uuid>> \o [i \in DOMAIN dialog |-> dialog[i].uuid], 1)]

\* The Selection Set handleConfirmDeselection leaves behind; ok is FALSE when
\* the handler or one of its queued updates threw.
applyDeselection(mods, sel, target, dialog) ==
    LET removals == confirmRemovals(mods, sel, target, dialog)
        applied == ApplyRemovals([ok |-> TRUE, value |-> sel], removals.ops, 1)
    IN [ok |-> removals.ok /\ applied.ok, value |-> applied.value]

-----------------------------------------------------------------------------
(* Persistence: the localStorage item 'selectedModules' *)

\* localStorage.getItem of a key that was never written
NoItem == [kind |-> "null"]

\* a stored text that JSON.parse rejects
Malformed == [kind |-> "malformed"]

\* no exception escaped / no load error
NoError == "null"

\* decimal numerals of the semester numbers the planner accepts
DecimalNumerals == <<"1", "2", "3", "4", "5", "6", "7", "8", "9", "10", "11", "12">>

\* String(k): the property key of semester k
KeyString(k) == DecimalNumerals[k]

\* parseInt(key, 10) of a property key
parseInt(key) == CHOOSE k \in DOMAIN DecimalNumerals : DecimalNumerals[k] = key

\* JSON.stringify of a per-semester Selection Set: its entries in key order
JSONstringify(sel) ==
    LET keys == Keys(sel)
    IN [kind |-> "object",
        entries |-> [i \in DOMAIN keys |-> [key |-> KeyString(keys[i]), value |-> sel[keys[i]]]]]

\* JSON.stringify of the flat Selection Set
JSONstringifyArray(list) == [kind |-> "array", items |-> list]

\* JSON.parse; ok is FALSE when it throws SyntaxError
JSONparse(text) ==
    IF text.kind = "object"
    THEN [ok |-> TRUE,
          value |-> [k \in {parseInt(text.entries[i].key) : i \in DOMAIN text.entries} |->
                        text.entries[CHOOSE i \in DOMAIN text.entries :
                                         parseInt(text.entries[i].key) = k].value]]
    ELSE IF text.kind = "array" THEN [ok |-> TRUE, value |-> text.items]
    ELSE [ok |-> FALSE, value |-> <<>>]

\* Mutant: the effect that writes the Selection Set is missing.
saveSelectedModules_Never(text) == UNCHANGED <<storage, renderError>>

\* Effect on [selectedModules]: localStorage.setItem('selectedModules', text).
\* setItem throws when the quota is exhausted; nothing catches it, so the
\* exception unmounts the planner.
saveSelectedModules(text) ==
    IF storageWritable
    THEN storage' = text /\ UNCHANGED renderError
    ELSE renderError' = "QuotaExceededError" /\ UNCHANGED storage

-----------------------------------------------------------------------------
(* Handlers of the per-semester planner *)

\* Mutant: a module with selected dependents is removed, with them, at once.
deselectOrAsk_NoConfirmation(moduleUuid, semesterNumber) ==
    LET removal == deselectModule(modules, selectedModules, moduleUuid, semesterNumber,
                                  [ok |-> TRUE, ops |-> <<>>])
    IN /\ selectedModules' =
              ApplyRemovals([ok |-> TRUE, value |-> selectedModules], removal.ops, 1).value
       /\ outcome' = IF removal.ok THEN "deselected" ELSE "RangeError"
       /\ UNCHANGED <<openDialog, dialogModules, moduleToDeselect>>

\* Mutant: the immediate deselection empties the whole semester.
deselectOrAsk_ClearsSemester(moduleUuid, semesterNumber) ==
    LET clickedModule == FindByUuid(modules, moduleUuid)
        dependentModules == getDependentModules(modules, selectedModules, moduleUuid)
    IN IF ~dependentModules.ok
       THEN /\ outcome' = "RangeError"
            /\ UNCHANGED <<selectedModules, openDialog, dialogModules, moduleToDeselect>>
       ELSE IF Len(dependentModules.list) > 0
       THEN /\ dialogModules' = dependentModules.list
            /\ moduleToDeselect' = clickedModule
            /\ openDialog' = TRUE
            /\ outcome' = "confirmationPending"
            /\ UNCHANGED selectedModules
       ELSE /\ selectedModules' = [selectedModules EXCEPT ![semesterNumber] = <<>>]
            /\ outcome' = "deselected"
            /\ UNCHANGED <<openDialog, dialogModules, moduleToDeselect>>

\* Lines 318-326: the clicked module is selected in this column.
deselectOrAsk(moduleUuid, semesterNumber) ==
    LET clickedModule == FindByUuid(modules, moduleUuid)
        dependentModules == getDependentModules(modules, selectedModules, moduleUuid)
        removal == deselectModule(modules, selectedModules, moduleUuid, semesterNumber,
                                  [ok |-> TRUE, ops |-> <<>>])
    IN IF ~dependentModules.ok
       THEN /\ outcome' = "RangeError"
            /\ UNCHANGED <<selectedModules, openDialog, dialogModules, moduleToDeselect>>
       ELSE IF Len(dependentModules.list) > 0
       THEN /\ dialogModules' = dependentModules.list
            /\ moduleToDeselect' = clickedModule
            /\ openDialog' = TRUE
            /\ outcome' = "confirmationPending"
            /\ UNCHANGED selectedModules
       ELSE /\ selectedModules' =
                  ApplyRemovals([ok |-> TRUE, value |-> selectedModules],
                                removal.ops, 1).value
            /\ outcome' = "deselected"
            /\ UNCHANGED <<openDialog, dialogModules, moduleToDeselect>>

\* Mutant: a selection that lifts the selected credits above the maximum of
\* a requirement is refused.
selectModule_EnforcesMaxCredits(moduleUuid, semesterNumber) ==
    LET clickedModule == FindByUuid(modules, moduleUuid)
        fulfilled == arePrerequisitesFulfilled(modules, selectedModules,
                                               clickedModule, semesterNumber)
        isSelectedElsewhere ==
            isModuleSelectedElsewhere(selectedModules, moduleUuid, semesterNumber)
        credits[i \in 0..Len(modules)] ==
            IF i = 0 THEN 0
            ELSE credits[i - 1]
                     + (IF IsSelectedAnywhere(selectedModules, modules[i].uuid)
                        THEN modules[i].ects ELSE 0)
    IN IF ~fulfilled
       THEN /\ outcome' = "PrerequisitesNotMet"
            /\ UNCHANGED <<selectedModules, openDialog, dialogModules, moduleToDeselect>>
       ELSE IF isSelectedElsewhere
       THEN /\ outcome' = "ConflictingSelection"
            /\ UNCHANGED <<selectedModules, openDialog, dialogModules, moduleToDeselect>>
       ELSE IF \E k \in DOMAIN studyRequirements :
                   credits[Len(modules)] + clickedModule.ects
                       > studyRequirements[k].maxCredits
       THEN /\ outcome' = "CreditsExceeded"
            /\ UNCHANGED <<selectedModules, openDialog, dialogModules, moduleToDeselect>>
       ELSE /\ selectedModules' =
                  AssignToSemester(selectedModules, semesterNumber, moduleUuid)
            /\ outcome' = "selected"
            /\ UNCHANGED <<openDialog, dialogModules, moduleToDeselect>>

\* Mutant: the return after the conflict alert is missing.
selectModule_NoReturn(moduleUuid, semesterNumber) ==
    LET clickedModule == FindByUuid(modules, moduleUuid)
        fulfilled == arePrerequisitesFulfilled(modules, selectedModules,
                                               clickedModule, semesterNumber)
        isSelectedElsewhere ==
            isModuleSelectedElsewhere(selectedModules, moduleUuid, semesterNumber)
    IN IF ~fulfilled
       THEN /\ outcome' = "PrerequisitesNotMet"
            /\ UNCHANGED <<selectedModules, openDialog, dialogModules, moduleToDeselect>>
       ELSE /\ selectedModules' =
                  AssignToSemester(selectedModules, semesterNumber, moduleUuid)
            /\ outcome' = IF isSelectedElsewhere THEN "ConflictingSelection" ELSE "selected"
            /\ UNCHANGED <<openDialog, dialogModules, moduleToDeselect>>

\* Mutant: the conflict is checked before the prerequisites.
selectModule_ConflictFirst(moduleUuid, semesterNumber) ==
    LET clickedModule == FindByUuid(modules, moduleUuid)
        fulfilled == arePrerequisitesFulfilled(modules, selectedModules,
                                               clickedModule, semesterNumber)
        isSelectedElsewhere ==
            isModuleSelectedElsewhere(selectedModules, moduleUuid, semesterNumber)
    IN IF isSelectedElsewhere
       THEN /\ outcome' = "ConflictingSelection"
            /\ UNCHANGED <<selectedModules, openDialog, dialogModules, moduleToDeselect>>
       ELSE IF ~fulfilled
       THEN /\ outcome' = "PrerequisitesNotMet"
            /\ UNCHANGED <<selectedModules, openDialog, dialogModules, moduleToDeselect>>
       ELSE /\ selectedModules' =
                  AssignToSemester(selectedModules, semesterNumber, moduleUuid)
            /\ outcome' = "selected"
            /\ UNCHANGED <<openDialog, dialogModules, moduleToDeselect>>

\* Lines 327-351: the clicked module is not selected in this column.
selectModule(moduleUuid, semesterNumber) ==
    LET clickedModule == FindByUuid(modules, moduleUuid)
        fulfilled == arePrerequisitesFulfilled(modules, selectedModules,
                                               clickedModule, semesterNumber)
        isSelectedElsewhere ==
            isModuleSelectedElsewhere(selectedModules, moduleUuid, semesterNumber)
    IN IF ~fulfilled
       THEN /\ outcome' = "PrerequisitesNotMet"
            /\ UNCHANGED <<selectedModules, openDialog, dialogModules, moduleToDeselect>>
       ELSE IF isSelectedElsewhere
       THEN /\ outcome' = "ConflictingSelection"
            /\ UNCHANGED <<selectedModules, openDialog, dialogModules, moduleToDeselect>>
       ELSE /\ selectedModules' =
                  AssignToSemester(selectedModules, semesterNumber, moduleUuid)
            /\ outcome' = "selected"
            /\ UNCHANGED <<openDialog, dialogModules, moduleToDeselect>>

\* Mutant: the handler never takes the deselection branch.
handleModuleSelection_AlwaysSelects(moduleUuid, semesterNumber) ==
    LET clickedModule == FindByUuid(modules, moduleUuid)
    IN /\ mounted /\ renderError = NoError
       /\ ~isLoading /\ error = NoError
       /\ ~openDialog
       /\ clickedModule # NoModule
       /\ UNCHANGED <<modules, callArg, callResult, shell>>
       /\ selectModule(moduleUuid, semesterNumber)
       /\ IF selectedModules' # selectedModules
          THEN saveSelectedModules(JSONstringify(selectedModules'))
          ELSE UNCHANGED <<storage, renderError>>

\* Click on the card of moduleUuid in column semesterNumber.  The columns are
\* rendered when nothing is loading and no load error is shown, and the cards
\* are not clickable while the modal confirmation dialog is open.  Every
\* update the handler queues adds or removes a uuid, and the effect on
\* [selectedModules] then saves the new Selection Set.
handleModuleSelection(moduleUuid, semesterNumber) ==
    LET clickedModule == FindByUuid(modules, moduleUuid)
        isSelected == Includes(Bucket(selectedModules, semesterNumber), moduleUuid)
    IN /\ mounted /\ renderError = NoError
       /\ ~isLoading /\ error = NoError
       /\ ~openDialog
       /\ clickedModule # NoModule
       /\ UNCHANGED <<modules, callArg, callResult, shell>>
       /\ IF isSelected
          THEN deselectOrAsk(moduleUuid, semesterNumber)
          ELSE selectModule(moduleUuid, semesterNumber)
       /\ IF selectedModules' # selectedModules
          THEN saveSelectedModules(JSONstringify(selectedModules'))
          ELSE UNCHANGED <<storage, renderError>>

\* Confirm button of the dialog.
handleConfirmDeselection ==
    LET applied == applyDeselection(modules, selectedModules, moduleToDeselect,
                                    dialogModules)
    IN /\ mounted /\ renderError = NoError
       /\ openDialog
       /\ moduleToDeselect # NoModule
       /\ selectedModules' = applied.value
       /\ saveSelectedModules(JSONstringify(selectedModules'))
       /\ IF applied.ok
          THEN /\ openDialog' = FALSE
               /\ moduleToDeselect' = NoModule
               /\ dialogModules' = <<>>
               /\ outcome' = "confirmed"
          ELSE /\ outcome' = "RangeError"
               /\ UNCHANGED <<openDialog, moduleToDeselect, dialogModules>>
       /\ UNCHANGED <<modules, callArg, callResult, shell>>

\* Cancel button, Escape or a click outside: setOpenDialog(false).
cancelDeselection ==
    /\ mounted /\ renderError = NoError
    /\ openDialog
    /\ openDialog' = FALSE
    /\ outcome' = "cancelled"
    /\ UNCHANGED <<modules, selectedModules, dialogModules, moduleToDeselect,
                   callArg, callResult, shell, storage, renderError>>

\* The hooks around the engine once the planner has mounted and the catalog of
\* the study program has arrived.
LoadedShell ==
    /\ isLoading = FALSE
    /\ error = NoError
    /\ numberOfSemesters = MaxSemester
    /\ firstSemesterType = "FSS"
    /\ selectedStudyProgramUri = "program1"
    /\ availableSemesters = [i \in 1..MaxSemester |-> i]
    /\ searchTerm = ""
    /\ layout = "landscape"
    /\ hideUnfulfilled = FALSE
    /\ hideSelected = FALSE
    /\ mounted = TRUE
    /\ studyPrograms = <<"program1">>
    /\ programsRequest = "settled"
    /\ fetches = <<>>
    /\ storageWritable = TRUE
    /\ renderError = NoError
    /\ cache = <<>>
    /\ requests = <<>>

\* The planner with a catalog loaded and nothing selected yet.
Init ==
    /\ modules \in Catalogs
    /\ selectedModules = <<>>
    /\ openDialog = FALSE
    /\ dialogModules = <<>>
    /\ moduleToDeselect = NoModule
    /\ outcome = "init"
    /\ callArg = NoCall
    /\ callResult = NoCall
    /\ LoadedShell
    /\ studyRequirements = <<>>
    /\ storage = JSONstringify(selectedModules)

Next ==
    \/ \E moduleUuid \in Uuids(modules), semesterNumber \in Semesters :
           handleModuleSelection(moduleUuid, semesterNumber)
    \/ handleConfirmDeselection
    \/ cancelDeselection

Spec == Init /\ [][Next]_vars

\* The planner with a catalog loaded in which a prerequisite code names no
\* module, and nothing selected yet.
InitDangling ==
    /\ modules \in DanglingCatalogs
    /\ selectedModules = <<>>
    /\ openDialog = FALSE
    /\ dialogModules = <<>>
    /\ moduleToDeselect = NoModule
    /\ outcome = "init"
    /\ callArg = NoCall
    /\ callResult = NoCall
    /\ LoadedShell
    /\ studyRequirements = <<>>
    /\ storage = JSONstringify(selectedModules)

SpecDangling == InitDangling /\ [][Next]_vars

-----------------------------------------------------------------------------
(* Direct calls of the pure functions of the per-semester planner, on a    *)
(* catalog and a Selection Set drawn from bounded sets.                    *)

\* The Selection Set in which module i sits in semester place[i] (0: not selected).
SelectionOf(place) ==
    [s \in {place[i] : i \in DOMAIN place} \ {0} |->
        SelectSeq([i \in DOMAIN place |-> i], LAMBDA u : place[u] = s)]

Selections == {SelectionOf(place) : place \in [DOMAIN CodeList -> 0..MaxSemester]}

InitPure ==
    /\ modules \in Catalogs
    /\ selectedModules \in Selections
    /\ openDialog = FALSE
    /\ dialogModules = <<>>
    /\ moduleToDeselect = NoModule
    /\ outcome = "init"
    /\ callArg = NoCall
    /\ callResult = NoCall
    /\ LoadedShell
    /\ studyRequirements = <<>>
    /\ storage = JSONstringify(selectedModules)

callGetDependentModules(moduleUuid) ==
    /\ callArg = NoCall
    /\ callArg' = [fn |-> "getDependentModules", moduleUuid |-> moduleUuid]
    /\ callResult' = getDependentModules(modules, selectedModules, moduleUuid)
    /\ UNCHANGED <<engine, shell, storage, renderError>>

callArePrerequisitesFulfilled(moduleUuid, currentSemester) ==
    /\ callArg = NoCall
    /\ callArg' = [fn |-> "arePrerequisitesFulfilled", moduleUuid |-> moduleUuid,
                   currentSemester |-> currentSemester]
    /\ callResult' = [value |-> arePrerequisitesFulfilled(modules, selectedModules,
                                    FindByUuid(modules, moduleUuid), currentSemester)]
    /\ UNCHANGED <<engine, shell, storage, renderError>>

NextPure ==
    \/ \E moduleUuid \in Uuids(modules) : callGetDependentModules(moduleUuid)
    \/ \E moduleUuid \in Uuids(modules), currentSemester \in Semesters :
           callArePrerequisitesFulfilled(moduleUuid, currentSemester)

SpecPure == InitPure /\ [][NextPure]_vars

-----------------------------------------------------------------------------
(* Flat planner: src/unnamed/part_005.  A module without recommended       *)
(* semesters becomes one instance per semester, each with its own uuid;    *)
(* selectedModules is a list of instance uuids.                            *)

\* Module codes of the catalogs of the flat planner, in catalog order.
FlatCodeList == <<"A", "B">>

FlatCodes == {FlatCodeList[i] : i \in DOMAIN FlatCodeList}

\* URI of the module with this code, as its path segments
ModuleUri(code) == <<"http://ramp.uni-mannheim.de", "module", code>>

\* uri.split('/').pop() || uri
extractModuleCode(uri) == uri[Len(uri)]

\* ascending sequence of a set of semester numbers
SortedSemesters(S) == SelectSeq([i \in 1..MaxSemester |-> i], LAMBDA k : k \in S)

\* Math.min(...semesters) of a non-empty list
MinSemester(semesters) ==
    CHOOSE k \in {semesters[i] : i \in DOMAIN semesters} :
        \A i \in DOMAIN semesters : k <= semesters[i]

\* The bindings getModules returns: one per code, with its recommended
\* semesters and the URIs of its mandatory prerequisites.
Bindings(rec, pre) ==
    [i \in DOMAIN FlatCodeList |->
        [code |-> FlatCodeList[i],
         recSemesterLabels |-> SortedSemesters(rec[FlatCodeList[i]]),
         prereqUris |-> {ModuleUri(c) : c \in pre[FlatCodeList[i]]}]]

\* modulesWithUUID.flatMap(...): instances of the bindings from index i on,
\* uuids counted up from the instances made so far.
RECURSIVE processedModules(_, _, _)
processedModules(bindings, i, made) ==
    IF i > Len(bindings) THEN made
    ELSE LET b == bindings[i]
             n == Len(made)
             instances ==
                 IF Len(b.recSemesterLabels) = 0
                 THEN [k \in 1..MaxSemester |->
                          [uuid |-> n + k, code |-> b.code, semesters |-> <<k>>,
                           prerequisites |-> b.prereqUris]]
                 ELSE <<[uuid |-> n + 1, code |-> b.code,
                         semesters |-> b.recSemesterLabels,
                         prerequisites |-> b.prereqUris]>>
         IN processedModules(bindings, i + 1, made \o instances)

FlatCatalogs ==
    {processedModules(Bindings(rec, pre), 1, <<>>) :
        rec \in [FlatCodes -> SUBSET Semesters], pre \in [FlatCodes -> SUBSET FlatCodes]}

NoInstance == [uuid |-> 0, code |-> "", semesters |-> <<>>, prerequisites |-> {}]

FindInstance(mods, uuid) ==
    IF \E i \in DOMAIN mods : mods[i].uuid = uuid
    THEN mods[CHOOSE i \in DOMAIN mods :
                 /\ mods[i].uuid = uuid
                 /\ \A j \in 1..(i - 1) : mods[j].uuid # uuid]
    ELSE NoInstance

arePrerequisitesFulfilledFlat(mods, sel, module, currentSemester) ==
    \A prereqUri \in module.prerequisites :
        LET extractedPrereqCode == extractModuleCode(prereqUri)
        IN \E i \in DOMAIN mods :
               /\ mods[i].code = extractedPrereqCode
               /\ Includes(sel, mods[i].uuid)
               /\ MinSemester(mods[i].semesters) < currentSemester

\* modules.find(m => selectedModules.includes(m.uuid) && m.code === code)
existingSelectedInstance(mods, sel, code) ==
    IF \E i \in DOMAIN mods : Includes(sel, mods[i].uuid) /\ mods[i].code = code
    THEN mods[CHOOSE i \in DOMAIN mods :
                 /\ Includes(sel, mods[i].uuid) /\ mods[i].code = code
                 /\ \A j \in 1..(i - 1) :
                        ~(Includes(sel, mods[j].uuid) /\ mods[j].code = code)]
    ELSE NoInstance

\* Mutant: the instance selected before is not filtered out.
replaceSelection_KeepsOld(prev, existingUuid, moduleUuid) == Append(prev, moduleUuid)

\* prev.filter(uuid => uuid !== existing.uuid).concat(moduleUuid)
replaceSelection(prev, existingUuid, moduleUuid) ==
    Append(FilterOut(prev, existingUuid), moduleUuid)

directDependentsFlat(mods, sel, module) ==
    SelectSeq(mods, LAMBDA m :
        /\ \E prereqUri \in m.prerequisites : extractModuleCode(prereqUri) = module.code
        /\ Includes(sel, m.uuid))

RECURSIVE traverseDependenciesFlat(_, _, _, _, _)
RECURSIVE traverseEachFlat(_, _, _, _, _, _)
traverseDependenciesFlat(mods, sel, module, acc, depth) ==
    IF ~acc.ok THEN acc
    ELSE IF depth > StackLimit THEN [ok |-> FALSE, list |-> acc.list]
    ELSE LET direct == directDependentsFlat(mods, sel, module)
         IN traverseEachFlat(mods, sel, direct, 1,
                             [ok |-> TRUE, list |-> acc.list \o direct], depth)

traverseEachFlat(mods, sel, direct, i, acc, depth) ==
    IF i > Len(direct) \/ ~acc.ok THEN acc
    ELSE traverseEachFlat(mods, sel, direct, i + 1,
             traverseDependenciesFlat(mods, sel, direct[i], acc, depth + 1), depth)

getDependentModulesFlat(mods, sel, moduleUuid) ==
    LET selectedModule == FindInstance(mods, moduleUuid)
    IN IF selectedModule = NoInstance THEN [ok |-> TRUE, list |-> <<>>]
       ELSE traverseDependenciesFlat(mods, sel, selectedModule,
                                     [ok |-> TRUE, list |-> <<>>], 1)

\* deselectModule of the flat planner: the uuids whose removal it queues.
RECURSIVE deselectModuleFlat(_, _, _, _)
RECURSIVE deselectEachFlat(_, _, _, _, _)
deselectModuleFlat(mods, sel, moduleUuid, acc) ==
    LET queued == [ok |-> TRUE, ops |-> Append(acc.ops, moduleUuid)]
        dependentModules == getDependentModulesFlat(mods, sel, moduleUuid)
    IN IF ~acc.ok THEN acc
       ELSE IF FindInstance(mods, moduleUuid) = NoInstance THEN queued
       ELSE IF ~dependentModules.ok THEN [ok |-> FALSE, ops |-> queued.ops]
       ELSE deselectEachFlat(mods, sel, dependentModules.list, 1, queued)

deselectEachFlat(mods, sel, dependents, i, acc) ==
    IF i > Len(dependents) \/ ~acc.ok THEN acc
    ELSE deselectEachFlat(mods, sel, dependents, i + 1,
                          deselectModuleFlat(mods, sel, dependents[i].uuid, acc))

\* prev => prev.filter(uuid => uuid !== u), for each queued u in order
RECURSIVE ApplyRemovalsFlat(_, _, _)
ApplyRemovalsFlat(prev, ops, i) ==
    IF i > Len(ops) THEN prev
    ELSE ApplyRemovalsFlat(FilterOut(prev, ops[i]), ops, i + 1)

\* Click on the card of an instance.
handleModuleSelectionFlat(moduleUuid) ==
    LET clickedModule == FindInstance(modules, moduleUuid)
        currentSemester == MinSemester(clickedModule.semesters)
        isSelected == Includes(selectedModules, moduleUuid)
        dependentModules == getDependentModulesFlat(modules, selectedModules, moduleUuid)
        removal == deselectModuleFlat(modules, selectedModules, moduleUuid,
                                      [ok |-> TRUE, ops |-> <<>>])
        existing == existingSelectedInstance(modules, selectedModules, clickedModule.code)
    IN /\ mounted /\ renderError = NoError
       /\ ~isLoading /\ error = NoError
       /\ ~openDialog
       /\ clickedModule # NoInstance
       /\ UNCHANGED <<modules, callArg, callResult, shell>>
       /\ IF isSelected
          THEN IF ~dependentModules.ok
               THEN /\ outcome' = "RangeError"
                    /\ UNCHANGED <<selectedModules, openDialog, dialogModules,
                                   moduleToDeselect>>
               ELSE IF Len(dependentModules.list) > 0
               THEN /\ dialogModules' = dependentModules.list
                    /\ moduleToDeselect' = clickedModule
                    /\ openDialog' = TRUE
                    /\ outcome' = "confirmationPending"
                    /\ UNCHANGED selectedModules
               ELSE /\ selectedModules' = ApplyRemovalsFlat(selectedModules, removal.ops, 1)
                    /\ outcome' = "deselected"
                    /\ UNCHANGED <<openDialog, dialogModules, moduleToDeselect>>
          ELSE IF ~arePrerequisitesFulfilledFlat(modules, selectedModules,
                                                 clickedModule, currentSemester)
               THEN /\ outcome' = "PrerequisitesNotMet"
                    /\ UNCHANGED <<selectedModules, openDialog, dialogModules,
                                   moduleToDeselect>>
               ELSE IF existing # NoInstance
               THEN /\ selectedModules' =
                          replaceSelection(selectedModules, existing.uuid, moduleUuid)
                    /\ outcome' = "moved"
                    /\ UNCHANGED <<openDialog, dialogModules, moduleToDeselect>>
               ELSE /\ selectedModules' = Append(selectedModules, moduleUuid)
                    /\ outcome' = "selected"
                    /\ UNCHANGED <<openDialog, dialogModules, moduleToDeselect>>
       /\ IF selectedModules' # selectedModules
          THEN saveSelectedModules(JSONstringifyArray(selectedModules'))
          ELSE UNCHANGED <<storage, renderError>>

\* Confirm button of the dialog of the flat planner.
handleConfirmDeselectionFlat ==
    /\ mounted /\ renderError = NoError
    /\ openDialog
    /\ moduleToDeselect # NoInstance
    /\ selectedModules' =
           ApplyRemovalsFlat(FilterOut(selectedModules, moduleToDeselect.uuid),
                             [i \in DOMAIN dialogModules |-> dialogModules[i].uuid], 1)
    /\ openDialog' = FALSE
    /\ moduleToDeselect' = NoInstance
    /\ outcome' = "confirmed"
    /\ saveSelectedModules(JSONstringifyArray(selectedModules'))
    /\ UNCHANGED <<modules, dialogModules, callArg, callResult, shell>>

InitFlat ==
    /\ modules \in FlatCatalogs
    /\ selectedModules = <<>>
    /\ openDialog = FALSE
    /\ dialogModules = <<>>
    /\ moduleToDeselect = NoInstance
    /\ outcome = "init"
    /\ callArg = NoCall
    /\ callResult = NoCall
    /\ LoadedShell
    /\ studyRequirements = <<>>
    /\ storage = JSONstringifyArray(selectedModules)

NextFlat ==
    \/ \E moduleUuid \in Uuids(modules) : handleModuleSelectionFlat(moduleUuid)
    \/ handleConfirmDeselectionFlat
    \/ cancelDeselection

SpecFlat == InitFlat /\ [][NextFlat]_vars

-----------------------------------------------------------------------------
(* Credit progress per subject area.  A name is a sequence of characters.  *)
(* The fetcher formats the study-area labels of a binding with             *)
(* formatModuleName; the planner compares names after normalizeName.       *)

\* Largest number of study-area labels of one module.
MaxLabels == 2

UpperCaseLetters == <<"X", "Y">>

LowerCaseLetters == <<"x", "y">>

\* String.prototype.toLowerCase on one character
toLowerCase(c) ==
    IF \E i \in DOMAIN UpperCaseLetters : UpperCaseLetters[i] = c
    THEN LowerCaseLetters[CHOOSE i \in DOMAIN UpperCaseLetters : UpperCaseLetters[i] = c]
    ELSE c

\* String.prototype.toUpperCase on one character
toUpperCase(c) ==
    IF \E i \in DOMAIN LowerCaseLetters : LowerCaseLetters[i] = c
    THEN UpperCaseLetters[CHOOSE i \in DOMAIN LowerCaseLetters : LowerCaseLetters[i] = c]
    ELSE c

\* name.replace(/_/g, ' ')
replaceUnderscores(name) == [i \in DOMAIN name |-> IF name[i] = "_" THEN " " ELSE name[i]]

\* sparql-fetcher: underscores to spaces, then every word capitalised
formatModuleName(name) ==
    LET spaced == replaceUnderscores(name)
    IN [i \in DOMAIN spaced |->
           IF spaced[i] = " " THEN " "
           ELSE IF i = 1 \/ spaced[i - 1] = " " THEN toUpperCase(spaced[i])
           ELSE toLowerCase(spaced[i])]

\* String.prototype.trim
RECURSIVE trim(_)
trim(name) ==
    IF name = <<>> THEN name
    ELSE IF name[1] = " " THEN trim(Tail(name))
    ELSE IF name[Len(name)] = " " THEN trim(SubSeq(name, 1, Len(name) - 1))
    ELSE name

\* name.replace(/\s+/g, ' ')
RECURSIVE collapseSpaces(_, _, _)
collapseSpaces(name, i, out) ==
    IF i > Len(name) THEN out
    ELSE collapseSpaces(name, i + 1,
             IF name[i] = " " /\ i > 1 /\ name[i - 1] = " " THEN out
             ELSE Append(out, name[i]))

\* name.trim().toLowerCase().replace(/_/g, ' ').replace(/\s+/g, ' ')
normalizeName(name) ==
    LET trimmed == trim(name)
        lowered == [i \in DOMAIN trimmed |-> toLowerCase(trimmed[i])]
    IN collapseSpaces(replaceUnderscores(lowered), 1, <<>>)

\* Study-area labels of the knowledge graph, as GROUP_CONCAT(DISTINCT ...) returns them.
RawLabelList == << <<"x">>, <<"X">>, <<"y">>, <<"x", "_", "y">>, <<"x", " ", "y">> >>

\* Module codes of the catalogs of the progress calls.
ProgressCodeList == <<"A", "B">>

\* ectsLabels of the bindings of the progress calls
ProgressEctsLabels == << <<5>>, <<6>> >>

\* the distinct labels with the indexes S, in list order
LabelsOf(S) == SelectSeq([i \in DOMAIN RawLabelList |-> i], LAMBDA i : i \in S)

\* fetchModuleData on the binding of module i whose study-area labels are labels
ProgressModule(i, labels) ==
    [uuid |-> i,
     code |-> ProgressCodeList[i],
     prerequisiteCodes |-> {},
     ects |-> IF Len(ProgressEctsLabels[i]) > 0 THEN ProgressEctsLabels[i][1] ELSE 0,
     subjectArea |-> [j \in DOMAIN labels |-> formatModuleName(RawLabelList[labels[j]])]]

ProgressCatalogs ==
    {[i \in DOMAIN ProgressCodeList |-> ProgressModule(i, LabelsOf(areas[i]))] :
        areas \in [DOMAIN ProgressCodeList ->
                      {S \in SUBSET DOMAIN RawLabelList : Cardinality(S) <= MaxLabels}]}

\* Selection Sets over the two modules and one uuid of a catalog loaded before
ProgressSelections ==
    {SelectionOf(place) : place \in [1..(Len(ProgressCodeList) + 1) -> 0..MaxSemester]}

\* fetchStudyRequirements: label, MIN(?ects) and MAX(?ects) of a study area
RequirementChoices ==
    {[name |-> n, minCredits |-> b[1], maxCredits |-> b[2]] :
        n \in {<<"x">>, <<"X", "_", "Y">>}, b \in {<<5, 10>>, <<6, 11>>}}

RequirementLists ==
    {<<r>> : r \in RequirementChoices}
        \cup {<<r, q>> : r \in {c \in RequirementChoices : c.name = <<"x">>},
                         q \in {c \in RequirementChoices : c.name # <<"x">>}}

\* Object.values(selectedModules).flat()
flatSelection(sel) ==
    LET keys == Keys(sel)
        F[i \in 0..Len(keys)] == IF i = 0 THEN <<>> ELSE F[i - 1] \o sel[keys[i]]
    IN F[Len(keys)]

\* module.subjectArea.forEach(...): credits of one module added to progress
RECURSIVE addSubjectAreas(_, _, _)
addSubjectAreas(module, j, progress) ==
    IF j > Len(module.subjectArea) THEN progress
    ELSE LET normalizedArea == normalizeName(module.subjectArea[j])
         IN addSubjectAreas(module, j + 1,
                IF normalizedArea \in DOMAIN progress
                THEN [progress EXCEPT ![normalizedArea] = @ + module.ects]
                ELSE progress)

\* .forEach((uuid) => ...) over the selected uuids
RECURSIVE addSelectedModules(_, _, _, _)
addSelectedModules(mods, uuids, i, progress) ==
    IF i > Len(uuids) THEN progress
    ELSE addSelectedModules(mods, uuids, i + 1,
             IF \E k \in DOMAIN mods : mods[k].uuid = uuids[i]
             THEN addSubjectAreas(FindByUuid(mods, uuids[i]), 1, progress)
             ELSE progress)

\* Mutant: the loop that initialises every subject area with 0 is missing.
calculateSubjectAreaProgress_NoInitialisation(reqs, mods, sel) ==
    addSelectedModules(mods, flatSelection(sel), 1, <<>>)

\* the Map calculateSubjectAreaProgress returns
calculateSubjectAreaProgress(reqs, mods, sel) ==
    LET initial == [n \in {normalizeName(reqs[i].name) : i \in DOMAIN reqs} |-> 0]
    IN addSelectedModules(mods, flatSelection(sel), 1, initial)

\* Mutant: a total equal to a bound is flagged as well.
isOutOfLimits_Inclusive(currentCredits, area) ==
    currentCredits <= area.minCredits \/ currentCredits >= area.maxCredits

\* currentCredits < area.minCredits || currentCredits > area.maxCredits
isOutOfLimits(currentCredits, area) ==
    currentCredits < area.minCredits \/ currentCredits > area.maxCredits

\* the rows of the progress drawer, one per requirement
renderProgressDrawer(reqs, mods, sel) ==
    LET progress == calculateSubjectAreaProgress(reqs, mods, sel)
    IN [i \in DOMAIN reqs |->
           LET normalizedAreaName == normalizeName(reqs[i].name)
               currentCredits == progress[normalizedAreaName]
           IN [area |-> reqs[i],
               currentCredits |-> currentCredits,
               isOutOfLimits |-> isOutOfLimits(currentCredits, reqs[i])]]

InitProgress ==
    /\ modules \in ProgressCatalogs
    /\ selectedModules \in ProgressSelections
    /\ studyRequirements \in RequirementLists
    /\ openDialog = FALSE
    /\ dialogModules = <<>>
    /\ moduleToDeselect = NoModule
    /\ outcome = "init"
    /\ callArg = NoCall
    /\ callResult = NoCall
    /\ LoadedShell
    /\ storage = JSONstringify(selectedModules)

callCalculateSubjectAreaProgress ==
    /\ callArg = NoCall
    /\ callArg' = [fn |-> "calculateSubjectAreaProgress"]
    /\ callResult' = [progress |-> calculateSubjectAreaProgress(
                                       studyRequirements, modules, selectedModules)]
    /\ UNCHANGED <<engine, shell, storage, renderError>>

callRenderProgressDrawer ==
    /\ callArg = NoCall
    /\ callArg' = [fn |-> "renderProgressDrawer"]
    /\ callResult' = [rows |-> renderProgressDrawer(
                                   studyRequirements, modules, selectedModules)]
    /\ UNCHANGED <<engine, shell, storage, renderError>>

NextProgress ==
    \/ callCalculateSubjectAreaProgress
    \/ callRenderProgressDrawer

SpecProgress == InitProgress /\ [][NextProgress]_vars

\* The catalogs of the progress calls, the second module with or without the
\* first as its prerequisite.
CreditCatalogs ==
    {[mods EXCEPT ![2].prerequisiteCodes = pre] :
        mods \in ProgressCatalogs, pre \in {{}, {ProgressCodeList[1]}}}

\* The planner with such a catalog and the requirements of the study program
\* loaded, and nothing selected yet.
InitCredits ==
    /\ modules \in CreditCatalogs
    /\ selectedModules = <<>>
    /\ studyRequirements \in RequirementLists
    /\ openDialog = FALSE
    /\ dialogModules = <<>>
    /\ moduleToDeselect = NoModule
    /\ outcome = "init"
    /\ callArg = NoCall
    /\ callResult = NoCall
    /\ LoadedShell
    /\ storage = JSONstringify(selectedModules)

SpecCredits == InitCredits /\ [][Next]_vars

-----------------------------------------------------------------------------
(* The whole planner: mount, catalog fetches, view settings, persistence.  *)
(* A handler, the effects its state changes trigger and the render that    *)
(* follows are one step; the settlement of a promise is a step of its own. *)
(* Nothing happens any more once an exception has unmounted the planner.   *)

\* Number of getModules calls modelled.
MaxFetches == 2

\* The study programs getStudyPrograms returns.
ProgramList == <<"program1", "program2">>

\* The bindings getModules returns for a study program: code and codes of
\* the mandatory prerequisites.
BindingsOf(uri) ==
    IF uri = "program1"
    THEN <<[code |-> "A", prerequisiteCodes |-> {}],
           [code |-> "B", prerequisiteCodes |-> {"A"}]>>
    ELSE <<[code |-> "C", prerequisiteCodes |-> {}]>>

\* The requirements getStudyRequirements returns for a study program.
RequirementsOf(uri) ==
    IF uri = "program1"
    THEN <<[name |-> <<"x">>, minCredits |-> 5, maxCredits |-> 10]>>
    ELSE <<>>

\* uuidv4() for binding i of the f-th fetch: never issued before
uuidv4(f, i) == f * 10 + i

\* bindings.map(...) of fetchModuleData for the f-th fetch
modulesWithUUID(f, bindings) ==
    [i \in DOMAIN bindings |->
        [uuid |-> uuidv4(f, i), code |-> bindings[i].code,
         prerequisiteCodes |-> bindings[i].prerequisiteCodes]]

\* Array.from({length: n}, (_, i) => i + 1)
allSemesters(n) == [i \in 1..n |-> i]

\* What the item 'selectedModules' may hold when the planner starts: nothing,
\* a text that is not JSON, or the Selection Set a previous visit saved, whose
\* uuids no later catalog uses.
StoredItems ==
    {NoItem, Malformed, JSONstringify(<<>>), JSONstringify(<< <<1>> >>)}

\* The planner after construction, before the effects of the first render.
InitApp ==
    /\ modules = <<>>
    /\ selectedModules = <<>>
    /\ openDialog = FALSE
    /\ dialogModules = <<>>
    /\ moduleToDeselect = NoModule
    /\ outcome = "init"
    /\ callArg = NoCall
    /\ callResult = NoCall
    /\ studyRequirements = <<>>
    /\ isLoading = FALSE
    /\ error = NoError
    /\ numberOfSemesters = MaxSemester
    /\ firstSemesterType = "FSS"
    /\ selectedStudyProgramUri = ""
    /\ availableSemesters = <<>>
    /\ searchTerm = ""
    /\ layout = "landscape"
    /\ hideUnfulfilled = FALSE
    /\ hideSelected = FALSE
    /\ mounted = FALSE
    /\ studyPrograms = <<>>
    /\ programsRequest = "none"
    /\ fetches = <<>>
    /\ storage \in StoredItems
    /\ storageWritable = TRUE
    /\ renderError = NoError
    /\ cache = <<>>
    /\ requests = <<>>

\* Effect on [selectedStudyProgramUri, numberOfSemesters, firstSemesterType]:
\* when one of them changed and a program is chosen, fetchModuleData starts
\* (setIsLoading(true), setError(null), await getModules) and so does
\* fetchStudyRequirements.
fetchEffect ==
    IF /\ <<selectedStudyProgramUri', numberOfSemesters', firstSemesterType'>>
              # <<selectedStudyProgramUri, numberOfSemesters, firstSemesterType>>
       /\ selectedStudyProgramUri' # ""
    THEN /\ Len(fetches) < MaxFetches
         /\ isLoading' = TRUE
         /\ error' = NoError
         /\ fetches' = Append(fetches,
                [uri |-> selectedStudyProgramUri',
                 numberOfSemesters |-> numberOfSemesters',
                 modules |-> "pending", requirements |-> "pending"])
    ELSE UNCHANGED <<isLoading, error, fetches>>

\* The effects of the first render, in order: fetchStudyPrograms starts; no
\* program is chosen yet, so nothing is fetched; the stored Selection Set is
\* parsed and set; the empty Selection Set of the first render is saved, and
\* after the render of the parsed one that one is saved.  JSON.parse and
\* setItem are not guarded: an exception unmounts the planner.
mountEffects ==
    LET parsed == JSONparse(storage)
        hydrated == IF storage # NoItem /\ parsed.ok THEN parsed.value ELSE <<>>
    IN /\ ~mounted
       /\ mounted' = TRUE
       /\ programsRequest' = "pending"
       /\ selectedModules' = hydrated
       /\ IF storage # NoItem /\ ~parsed.ok
          THEN /\ renderError' = "SyntaxError"
               /\ storage' = IF storageWritable THEN JSONstringify(<<>>) ELSE storage
          ELSE saveSelectedModules(JSONstringify(hydrated))
       /\ UNCHANGED <<modules, openDialog, dialogModules, moduleToDeselect, outcome,
                      callArg, callResult, fetcher, studyRequirements, settings,
                      isLoading, error, availableSemesters, studyPrograms, fetches,
                      storageWritable>>

\* getStudyPrograms settles: on success the list is kept and its first
\* program chosen, which starts the first catalog fetch; a failure is logged.
studyProgramsSettle(programs, ok) ==
    /\ mounted /\ renderError = NoError
    /\ programsRequest = "pending"
    /\ programsRequest' = "settled"
    /\ IF ok
       THEN /\ studyPrograms' = programs
            /\ selectedStudyProgramUri' =
                   IF Len(programs) > 0 THEN programs[1] ELSE selectedStudyProgramUri
       ELSE UNCHANGED <<studyPrograms, selectedStudyProgramUri>>
    /\ UNCHANGED <<engine, callArg, callResult, fetcher, studyRequirements, numberOfSemesters,
                   firstSemesterType, searchTerm, layout, hideUnfulfilled, hideSelected,
                   availableSemesters, mounted, storageWritable, storage, renderError>>
    /\ fetchEffect

\* Mutant: the finally block is missing, a failed fetch leaves the flag set.
getModulesSettle_NoFinally(f, ok) ==
    /\ mounted /\ renderError = NoError
    /\ f \in DOMAIN fetches
    /\ fetches[f].modules = "pending"
    /\ fetches' = [fetches EXCEPT ![f].modules = IF ok THEN "resolved" ELSE "rejected"]
    /\ IF ok
       THEN /\ availableSemesters' = allSemesters(fetches[f].numberOfSemesters)
            /\ modules' = modulesWithUUID(f, BindingsOf(fetches[f].uri))
            /\ isLoading' = FALSE
            /\ UNCHANGED error
       ELSE /\ error' = "Failed to load modules. Please try again later."
            /\ UNCHANGED <<availableSemesters, modules, isLoading>>
    /\ UNCHANGED <<selectedModules, openDialog, dialogModules, moduleToDeselect, outcome,
                   callArg, callResult, fetcher, studyRequirements, settings, studyPrograms,
                   programsRequest, mounted, storageWritable, storage, renderError>>

\* The getModules promise of the f-th fetchModuleData settles: try / catch /
\* finally of lines 164-211, with the semester count of the render that
\* started the fetch.
getModulesSettle(f, ok) ==
    /\ mounted /\ renderError = NoError
    /\ f \in DOMAIN fetches
    /\ fetches[f].modules = "pending"
    /\ fetches' = [fetches EXCEPT ![f].modules = IF ok THEN "resolved" ELSE "rejected"]
    /\ IF ok
       THEN /\ availableSemesters' = allSemesters(fetches[f].numberOfSemesters)
            /\ modules' = modulesWithUUID(f, BindingsOf(fetches[f].uri))
            /\ UNCHANGED error
       ELSE /\ error' = "Failed to load modules. Please try again later."
            /\ UNCHANGED <<availableSemesters, modules>>
    /\ isLoading' = FALSE
    /\ UNCHANGED <<selectedModules, openDialog, dialogModules, moduleToDeselect, outcome,
                   callArg, callResult, fetcher, studyRequirements, settings, studyPrograms,
                   programsRequest, mounted, storageWritable, storage, renderError>>

\* The getStudyRequirements promise of the f-th fetch settles.
studyRequirementsSettle(f, ok) ==
    /\ mounted /\ renderError = NoError
    /\ f \in DOMAIN fetches
    /\ fetches[f].requirements = "pending"
    /\ fetches' = [fetches EXCEPT ![f].requirements = IF ok THEN "resolved" ELSE "rejected"]
    /\ studyRequirements' = IF ok THEN RequirementsOf(fetches[f].uri) ELSE <<>>
    /\ UNCHANGED <<engine, callArg, callResult, fetcher, settings, isLoading, error,
                   availableSemesters, studyPrograms, programsRequest, mounted,
                   storageWritable, storage, renderError>>

\* The select of the study program: setSelectedStudyProgramUri(e.target.value).
selectStudyProgram(uri) ==
    /\ mounted /\ renderError = NoError /\ ~openDialog
    /\ Includes(studyPrograms, uri)
    /\ selectedStudyProgramUri' = uri
    /\ UNCHANGED <<engine, callArg, callResult, fetcher, studyRequirements, numberOfSemesters,
                   firstSemesterType, searchTerm, layout, hideUnfulfilled, hideSelected,
                   availableSemesters, studyPrograms, programsRequest, mounted,
                   storageWritable, storage, renderError>>
    /\ fetchEffect

\* parseInt of the text of the number input: NaN when it holds no number
ParsedNumbers ==
    {[isNaN |-> TRUE, number |-> 0]}
        \cup {[isNaN |-> FALSE, number |-> n] : n \in 0..MaxSemester}

\* Mutant: the upper limit of the number of semesters is not checked.
handleSemesterCountChange_NoUpperLimit(value) ==
    /\ mounted /\ renderError = NoError /\ ~openDialog
    /\ IF ~value.isNaN /\ value.number > 0
       THEN /\ numberOfSemesters' = value.number
            /\ selectedModules' = <<>>
            /\ saveSelectedModules(JSONstringify(selectedModules'))
       ELSE UNCHANGED <<numberOfSemesters, selectedModules, storage, renderError>>
    /\ UNCHANGED <<modules, openDialog, dialogModules, moduleToDeselect, outcome,
                   callArg, callResult, fetcher, studyRequirements, firstSemesterType,
                   selectedStudyProgramUri, searchTerm, layout, hideUnfulfilled,
                   hideSelected, availableSemesters, studyPrograms, programsRequest,
                   mounted, storageWritable>>
    /\ fetchEffect

\* The number input: value is parseInt of the text typed.  An accepted value
\* is set and the Selection Set reset and saved.
handleSemesterCountChange(value) ==
    /\ mounted /\ renderError = NoError /\ ~openDialog
    /\ IF ~value.isNaN /\ value.number > 0 /\ value.number <= Len(DecimalNumerals)
       THEN /\ numberOfSemesters' = value.number
            /\ selectedModules' = <<>>
            /\ saveSelectedModules(JSONstringify(selectedModules'))
       ELSE UNCHANGED <<numberOfSemesters, selectedModules, storage, renderError>>
    /\ UNCHANGED <<modules, openDialog, dialogModules, moduleToDeselect, outcome,
                   callArg, callResult, fetcher, studyRequirements, firstSemesterType,
                   selectedStudyProgramUri, searchTerm, layout, hideUnfulfilled,
                   hideSelected, availableSemesters, studyPrograms, programsRequest,
                   mounted, storageWritable>>
    /\ fetchEffect

\* Mutant: the reset that is commented out in the handler is active.
handleSemesterTypeChange_Resets(value) ==
    /\ mounted /\ renderError = NoError /\ ~openDialog
    /\ firstSemesterType' = value
    /\ selectedModules' = <<>>
    /\ saveSelectedModules(JSONstringify(selectedModules'))
    /\ UNCHANGED <<modules, openDialog, dialogModules, moduleToDeselect, outcome,
                   callArg, callResult, fetcher, studyRequirements, numberOfSemesters,
                   selectedStudyProgramUri, searchTerm, layout, hideUnfulfilled,
                   hideSelected, availableSemesters, studyPrograms, programsRequest,
                   mounted, storageWritable>>
    /\ fetchEffect

\* The select of the first semester type.
handleSemesterTypeChange(value) ==
    /\ mounted /\ renderError = NoError /\ ~openDialog
    /\ firstSemesterType' = value
    /\ UNCHANGED <<engine, callArg, callResult, fetcher, studyRequirements, numberOfSemesters,
                   selectedStudyProgramUri, searchTerm, layout, hideUnfulfilled,
                   hideSelected, availableSemesters, studyPrograms, programsRequest,
                   mounted, storageWritable, storage, renderError>>
    /\ fetchEffect

handleLayoutChange(value) ==
    /\ mounted /\ renderError = NoError /\ ~openDialog
    /\ layout' = value
    /\ UNCHANGED <<engine, callArg, callResult, fetcher, studyRequirements, numberOfSemesters,
                   firstSemesterType, selectedStudyProgramUri, searchTerm,
                   hideUnfulfilled, hideSelected, loading, mounted, storageWritable,
                   storage, renderError>>

handleSearchChange(value) ==
    /\ mounted /\ renderError = NoError /\ ~openDialog
    /\ searchTerm' = value
    /\ UNCHANGED <<engine, callArg, callResult, fetcher, studyRequirements, numberOfSemesters,
                   firstSemesterType, selectedStudyProgramUri, layout,
                   hideUnfulfilled, hideSelected, loading, mounted, storageWritable,
                   storage, renderError>>

handleHideUnfulfilledChange(checked) ==
    /\ mounted /\ renderError = NoError /\ ~openDialog
    /\ hideUnfulfilled' = checked
    /\ UNCHANGED <<engine, callArg, callResult, fetcher, studyRequirements, numberOfSemesters,
                   firstSemesterType, selectedStudyProgramUri, searchTerm, layout,
                   hideSelected, loading, mounted, storageWritable, storage, renderError>>

\* onCheckedChange of the "hide already selected" checkbox
setHideSelected(checked) ==
    /\ mounted /\ renderError = NoError /\ ~openDialog
    /\ hideSelected' = checked
    /\ UNCHANGED <<engine, callArg, callResult, fetcher, studyRequirements, numberOfSemesters,
                   firstSemesterType, selectedStudyProgramUri, searchTerm, layout,
                   hideUnfulfilled, loading, mounted, storageWritable, storage,
                   renderError>>

\* The browser's quota for the origin is used up: setItem throws from now on.
storageExhausted ==
    /\ storageWritable
    /\ storageWritable' = FALSE
    /\ UNCHANGED <<engine, callArg, callResult, fetcher, studyRequirements, settings, loading,
                   mounted, storage, renderError>>

NextApp ==
    \/ mountEffects
    \/ \E programs \in {<<>>, ProgramList}, ok \in BOOLEAN : studyProgramsSettle(programs, ok)
    \/ \E f \in 1..MaxFetches, ok \in BOOLEAN : getModulesSettle(f, ok)
    \/ \E uri \in {ProgramList[i] : i \in DOMAIN ProgramList} : selectStudyProgram(uri)
    \/ \E value \in ParsedNumbers : handleSemesterCountChange(value)
    \/ \E value \in {"FSS", "HWS"} : handleSemesterTypeChange(value)
    \/ \E value \in {"landscape", "2x"} : handleLayoutChange(value)
    \/ \E value \in {"", "a"} : handleSearchChange(value)
    \/ \E checked \in BOOLEAN : handleHideUnfulfilledChange(checked)
    \/ \E checked \in BOOLEAN : setHideSelected(checked)
    \/ \E moduleUuid \in Uuids(modules) :
           \E i \in DOMAIN availableSemesters :
               handleModuleSelection(moduleUuid, availableSemesters[i])
    \/ handleConfirmDeselection
    \/ cancelDeselection
    \/ storageExhausted

SpecApp == InitApp /\ [][NextApp]_vars

\* The requests of the planner on their own: mount, the choice of the study
\* program and the two fetches of the effect, with a storage that is empty and
\* writable.  SpecApp leaves the requirement promises pending: their
\* settlement changes studyRequirements only.
InitFetch ==
    /\ InitApp
    /\ storage = NoItem

NextFetch ==
    \/ mountEffects
    \/ \E programs \in {<<>>, ProgramList}, ok \in BOOLEAN : studyProgramsSettle(programs, ok)
    \/ \E f \in 1..MaxFetches, ok \in BOOLEAN : getModulesSettle(f, ok)
    \/ \E f \in 1..MaxFetches, ok \in BOOLEAN : studyRequirementsSettle(f, ok)
    \/ \E uri \in {ProgramList[i] : i \in DOMAIN ProgramList} : selectStudyProgram(uri)
    \/ \E value \in ParsedNumbers : handleSemesterCountChange(value)
    \/ \E value \in {"FSS", "HWS"} : handleSemesterTypeChange(value)

\* Every getModules promise settles: the browser answers or gives up on each
\* request.
SpecFetch ==
    /\ InitFetch
    /\ [][NextFetch]_vars
    /\ \A f \in 1..MaxFetches : WF_vars(\E ok \in BOOLEAN : getModulesSettle(f, ok))

\* parseInt of texts the number input can hold: no number, numbers below,
\* at and above the limits of the handler.
CountInputs ==
    {[isNaN |-> TRUE, number |-> 0]}
        \cup {[isNaN |-> FALSE, number |-> n] :
                 n \in {-1, 0, 1, MaxSemester, Len(DecimalNumerals), Len(DecimalNumerals) + 1}}

\* The planner from its start with the number input: the Selection Set is
\* the one a previous visit stored.
NextCount ==
    \/ mountEffects
    \/ \E programs \in {<<>>, ProgramList}, ok \in BOOLEAN : studyProgramsSettle(programs, ok)
    \/ \E f \in 1..MaxFetches, ok \in BOOLEAN : getModulesSettle(f, ok)
    \/ \E value \in CountInputs : handleSemesterCountChange(value)
    \/ storageExhausted

SpecCount == InitApp /\ [][NextCount]_vars

\* Largest semester number the alternation of types is evaluated for.
MaxSemesterNumber == 16

\* Mutant: every semester has the type of the first one.
getSemesterType_NoAlternation(semesterNumber) == firstSemesterType

\* types[(startIndex + semesterNumber - 1) % 2]; a sequence counts from 1.
getSemesterType(semesterNumber) ==
    LET types == <<"FSS", "HWS">>
        startIndex == IF firstSemesterType = "FSS" THEN 0 ELSE 1
    IN types[((startIndex + semesterNumber - 1) % 2) + 1]

\* The semester columns are rendered when the planner neither loads nor
\* shows an error: one call of getSemesterType per available semester.
renderSemesterColumns ==
    /\ mounted /\ renderError = NoError
    /\ ~isLoading /\ error = NoError
    /\ callArg' = [fn |-> "getSemesterType", firstSemesterType |-> firstSemesterType,
                   semesters |-> availableSemesters]
    /\ callResult' = [types |-> [i \in DOMAIN availableSemesters |->
                                    getSemesterType(availableSemesters[i])]]
    /\ UNCHANGED <<engine, shell, storage, renderError>>

\* The planner from its start with the number input and the select of the
\* first semester type.
NextType ==
    \/ mountEffects
    \/ \E programs \in {<<>>, ProgramList}, ok \in BOOLEAN : studyProgramsSettle(programs, ok)
    \/ \E f \in 1..MaxFetches, ok \in BOOLEAN : getModulesSettle(f, ok)
    \/ \E value \in CountInputs : handleSemesterCountChange(value)
    \/ \E value \in {"FSS", "HWS"} : handleSemesterTypeChange(value)
    \/ renderSemesterColumns

SpecType == InitApp /\ [][NextType]_vars

-----------------------------------------------------------------------------
(* sparql-fetcher: getModules and getStudyRequirements share one NodeCache. *)
(* A call is a step up to its await; the arrival of the response of        *)
(* /api/sparql is a step of its own.  The planner specifications above     *)
(* treat a call as a promise that resolves or rejects.                     *)

\* Number of fetches of /api/sparql modelled.
MaxRequests == 3

\* Number of revisions of the knowledge graph a response may come from.
MaxRevision == 2

\* URIs of study programs, as sequences of characters; one is a prefix of
\* the other.
ProgramUris == {<<"p">>, <<"p", "1">>}

\* Mutant: the cache key of getModules does not include the study program.
modulesCacheKey_NoProgram(studyProgramUri) ==
    <<"m", "o", "d", "u", "l", "e", "s", "D", "a", "t", "a">>

\* `modulesData-${studyProgramUri}`
modulesCacheKey(studyProgramUri) ==
    <<"m", "o", "d", "u", "l", "e", "s", "D", "a", "t", "a", "-">> \o studyProgramUri

\* `studyRequirements-${studyProgramUri}`
requirementsCacheKey(studyProgramUri) ==
    <<"s", "t", "u", "d", "y", "R", "e", "q", "u", "i", "r", "e", "m", "e", "n", "t", "s", "-">>
        \o studyProgramUri

\* cache.set(key, value)
cacheSet(c, key, value) ==
    [k \in DOMAIN c \cup {key} |-> IF k = key THEN value ELSE c[k]]

\* What the endpoint answers to the query a function builds for a program:
\* the bindings of that program in some revision of the knowledge graph.
ResponseData(fn, studyProgramUri, revision) ==
    [kind |-> fn, program |-> studyProgramUri, revision |-> revision]

InitCache ==
    /\ modules = <<>>
    /\ selectedModules = <<>>
    /\ openDialog = FALSE
    /\ dialogModules = <<>>
    /\ moduleToDeselect = NoModule
    /\ outcome = "init"
    /\ callArg = NoCall
    /\ callResult = NoCall
    /\ LoadedShell
    /\ studyRequirements = <<>>
    /\ storage = JSONstringify(selectedModules)

\* A call of a fetcher function with cache key `key`: a cached value is
\* returned at once, otherwise the query is posted to /api/sparql.
fetcherCall(fn, studyProgramUri, key) ==
    /\ IF key \in DOMAIN cache
       THEN /\ callArg' = [fn |-> fn, studyProgramUri |-> studyProgramUri]
            /\ callResult' = [ok |-> TRUE, value |-> cache[key], from |-> "cache"]
            /\ UNCHANGED requests
       ELSE /\ Len(requests) < MaxRequests
            /\ requests' = Append(requests,
                   [fn |-> fn, studyProgramUri |-> studyProgramUri,
                    key |-> key, status |-> "pending"])
            /\ UNCHANGED <<callArg, callResult>>
    /\ UNCHANGED <<engine, studyRequirements, settings, loading, mounted,
                   storageWritable, storage, renderError, cache>>

\* getModules, lines 201-209 and 274-283
getModules(studyProgramUri) ==
    fetcherCall("getModules", studyProgramUri, modulesCacheKey(studyProgramUri))

\* getStudyRequirements, lines 381-411
getStudyRequirements(studyProgramUri) ==
    fetcherCall("getStudyRequirements", studyProgramUri,
                requirementsCacheKey(studyProgramUri))

\* The response of request r arrives.  ok: the status is ok and the body
\* parses into bindings, which are stored and returned; otherwise the
\* function throws from its try block, logs and rethrows.
fetcherResponse(r, ok, revision) ==
    LET request == requests[r]
        data == ResponseData(request.fn, request.studyProgramUri, revision)
    IN /\ r \in DOMAIN requests
       /\ request.status = "pending"
       /\ requests' = [requests EXCEPT ![r].status = "settled"]
       /\ callArg' = [fn |-> request.fn, studyProgramUri |-> request.studyProgramUri]
       /\ IF ok
          THEN /\ cache' = cacheSet(cache, request.key, data)
               /\ callResult' = [ok |-> TRUE, value |-> data, from |-> "network"]
          ELSE /\ callResult' = [ok |-> FALSE, value |-> "Error", from |-> "network"]
               /\ UNCHANGED cache
       /\ UNCHANGED <<engine, studyRequirements, settings, loading, mounted,
                      storageWritable, storage, renderError>>

\* The time to live of an entry (stdTTL: 3600) is over: the entry is gone.
cacheExpires(key) ==
    /\ key \in DOMAIN cache
    /\ cache' = [k \in DOMAIN cache \ {key} |-> cache[k]]
    /\ UNCHANGED <<engine, callArg, callResult, studyRequirements, settings, loading,
                   mounted, storageWritable, storage, renderError, requests>>

NextCache ==
    \/ \E studyProgramUri \in ProgramUris : getModules(studyProgramUri)
    \/ \E studyProgramUri \in ProgramUris : getStudyRequirements(studyProgramUri)
    \/ \E r \in 1..MaxRequests, ok \in BOOLEAN, revision \in 1..MaxRevision :
           fetcherResponse(r, ok, revision)
    \/ \E key \in DOMAIN cache : cacheExpires(key)

SpecCache == InitCache /\ [][NextCache]_vars

-----------------------------------------------------------------------------
(* app/api/sparql/route.ts: the proxy between the fetcher and the SPARQL   *)
(* endpoint.  A request is handled in one step; what the endpoint does is  *)
(* an input of the step.                                                   *)

\* Values of JavaScript as the route sees them.
Undefined == [type |-> "undefined"]
JsonNull == [type |-> "null"]
JsonString(chars) == [type |-> "string", chars |-> chars]
JsonNumber(n) == [type |-> "number", number |-> n]
JsonArray(items) == [type |-> "array", items |-> items]
JsonObject(hasQuery, query) == [type |-> "object", hasQuery |-> hasQuery, query |-> query]

\* A text that is JSON
JsonText(value) == [kind |-> "json", value |-> value]

\* !value
Falsy(value) ==
    \/ value.type \in {"undefined", "null"}
    \/ value.type = "string" /\ value.chars = ""
    \/ value.type = "number" /\ value.number = 0

\* process.env.GRAPH_ENDPOINT, GRAPH_USERNAME and GRAPH_PASSWORD when the
\* module is loaded: not set, set to the empty string, or set.
Environments ==
    [SPARQL_ENDPOINT : {Undefined, JsonString(""), JsonString("http://graph")},
     GRAPH_USERNAME : {Undefined, JsonString(""), JsonString("user")},
     GRAPH_PASSWORD : {Undefined, JsonString(""), JsonString("secret")}]

\* Bodies a client may post: no JSON, JSON that is no object, objects
\* without a query, with a query that is no string, with the empty query and
\* with a query.
RequestBodies ==
    {Malformed}
        \cup {JsonText(v) : v \in {JsonNull, JsonNumber(5), JsonString("q"),
                                   JsonArray(<<>>)}}
        \cup {JsonText(JsonObject(FALSE, Undefined))}
        \cup {JsonText(JsonObject(TRUE, q)) :
                 q \in {JsonNull, JsonNumber(0), JsonNumber(5), JsonArray(<<"q">>),
                        JsonString(""), JsonString("SELECT"), JsonString("ASK")}}

\* What fetch(SPARQL_ENDPOINT) brings: a rejection, or a response of any
\* status whose text is JSON or not.
UpstreamOutcomes ==
    {[kind |-> "rejects"]}
        \cup [kind : {"response"}, status : {200, 400, 500},
              text : {Malformed, JsonText(JsonObject(FALSE, Undefined)),
                      JsonText(JsonArray(<<>>))}]

\* request.json() and JSON.parse(responseText); ok is FALSE when it throws
parseJson(text) ==
    IF text.kind = "json" THEN [ok |-> TRUE, value |-> text.value]
    ELSE [ok |-> FALSE, value |-> Undefined]

\* body.query; ok is FALSE when the access throws TypeError
queryOf(body) ==
    IF body.type \in {"undefined", "null"} THEN [ok |-> FALSE, value |-> Undefined]
    ELSE IF body.type = "object" /\ body.hasQuery THEN [ok |-> TRUE, value |-> body.query]
    ELSE [ok |-> TRUE, value |-> Undefined]

\* NextResponse.json(data, { status }); forwarded tells whether fetch was
\* called with the endpoint.
NextResponseJson(data, status, forwarded) ==
    [status |-> status, data |-> data, forwarded |-> forwarded]

\* export async function OPTIONS()
OPTIONS ==
    /\ callArg' = [fn |-> "OPTIONS"]
    /\ callResult' = NextResponseJson([message |-> "CORS preflight response"], 200, FALSE)
    /\ UNCHANGED <<engine, shell, storage, renderError>>

\* export async function POST(request)
POST(env, requestText, upstream) ==
    LET body == parseJson(requestText)
        query == queryOf(body.value)
        InternalServerError(forwarded) ==
            NextResponseJson([error |-> "Internal Server Error"], 500, forwarded)
        parsed == parseJson(upstream.text)
        answer ==
            IF Falsy(env.SPARQL_ENDPOINT) \/ Falsy(env.GRAPH_USERNAME)
                   \/ Falsy(env.GRAPH_PASSWORD)
            THEN NextResponseJson([error |-> "Server configuration error. Please contact the administrator."],
                                  500, FALSE)
            ELSE IF ~body.ok \/ ~query.ok
            THEN InternalServerError(FALSE)
            ELSE IF Falsy(query.value) \/ query.value.type # "string"
            THEN NextResponseJson([error |-> "Invalid SPARQL query."], 400, FALSE)
            ELSE IF upstream.kind = "rejects"
            THEN InternalServerError(TRUE)
            ELSE IF ~parsed.ok
            THEN NextResponseJson([error |-> "Failed to parse SPARQL response. Ensure your query is correct."],
                                  500, TRUE)
            ELSE NextResponseJson(parsed.value, 200, TRUE)
    IN /\ callArg' = [fn |-> "POST", env |-> env, body |-> requestText,
                      upstream |-> IF answer.forwarded THEN upstream ELSE NoCall]
       /\ callResult' = answer
       /\ UNCHANGED <<engine, shell, storage, renderError>>

NextProxy ==
    \/ OPTIONS
    \/ \E env \in Environments, requestText \in RequestBodies,
          upstream \in UpstreamOutcomes : POST(env, requestText, upstream)

SpecProxy == InitFetch /\ [][NextProxy]_vars

-----------------------------------------------------------------------------
(* Vocabulary of the properties *)

\* uuids selected in semester sem
SelectedIn(sel, sem) ==
    IF sem \in DOMAIN sel THEN {sel[sem][i] : i \in DOMAIN sel[sem]} ELSE {}

\* every uuid of the Selection Set
SelectedSet(sel) == UNION {SelectedIn(sel, s) : s \in DOMAIN sel}

\* every occurrence <<semester, index>> of a uuid in the Selection Set
Positions(sel) == UNION {{<<s, i>> : i \in DOMAIN sel[s]} : s \in DOMAIN sel}

\* some module with this code is selected in one of the semesters sems
CodeSelectedIn(mods, sel, code, sems) ==
    \E s \in sems : \E u \in SelectedIn(sel, s) : FindByUuid(mods, u).code = code

ModuleSet(mods) == {mods[i] : i \in DOMAIN mods}

\* modules that are selected and list the code of a module of S as a prerequisite
SelectedDependentsOf(mods, sel, S) ==
    {m \in ModuleSet(mods) :
        /\ m.uuid \in SelectedSet(sel)
        /\ \E x \in S : x.code \in m.prerequisiteCodes}

\* C1 as stated: every module selected in semester s has each prerequisite
\* code selected in a semester strictly earlier than s.
C1_PrerequisitesStrictlyEarlier ==
    \A s \in DOMAIN selectedModules : \A u \in SelectedIn(selectedModules, s) :
        \A code \in FindByUuid(modules, u).prerequisiteCodes :
            CodeSelectedIn(modules, selectedModules, code, 1..(s - 1))

\* C1 amended: every module selected in semester s has each prerequisite
\* code selected in semester s or an earlier one.
C1_PrerequisitesSameOrEarlier ==
    \A s \in DOMAIN selectedModules : \A u \in SelectedIn(selectedModules, s) :
        \A code \in FindByUuid(modules, u).prerequisiteCodes :
            CodeSelectedIn(modules, selectedModules, code, 1..s)

\* A module is selected whose prerequisite sits in the same semester and in no earlier one.
C1_Witness ==
    \E s \in DOMAIN selectedModules : \E u \in SelectedIn(selectedModules, s) :
        \E code \in FindByUuid(modules, u).prerequisiteCodes :
            /\ CodeSelectedIn(modules, selectedModules, code, {s})
            /\ ~CodeSelectedIn(modules, selectedModules, code, 1..(s - 1))

\* C2: no code has more than one selected occurrence, all buckets counted.
C2_AtMostOnePerCode ==
    \A code \in Codes :
        Cardinality({p \in Positions(selectedModules) :
            FindByUuid(modules, selectedModules[p[1]][p[2]]).code = code}) <= 1

\* Several selections were accepted and a further one was refused as a conflict.
C2_Witness ==
    /\ Cardinality(Positions(selectedModules)) >= 2
    /\ outcome = "ConflictingSelection"

\* C4: a handler run that ends in a rejection leaves the Selection Set as it was.
C4_RejectionChangesNothing ==
    [][outcome' \in {"PrerequisitesNotMet", "ConflictingSelection"}
           => selectedModules' = selectedModules]_vars

\* A selection was refused for unmet prerequisites while modules were selected.
C4_Witness ==
    /\ outcome = "PrerequisitesNotMet"
    /\ Positions(selectedModules) # {}

\* the request of C5: module u is not selected in column s and its code is
\* selected in another semester
ConflictingRequest(u, s) ==
    /\ ~(u \in SelectedIn(selectedModules, s))
    /\ CodeSelectedIn(modules, selectedModules, FindByUuid(modules, u).code,
                      DOMAIN selectedModules \ {s})

\* C5 as stated: such a request always ends as a conflicting selection.
C5_RejectedAsConflict ==
    [][\A u \in Uuids(modules), s \in Semesters :
           (ConflictingRequest(u, s) /\ handleModuleSelection(u, s))
               => outcome' = "ConflictingSelection"]_vars

\* C5 amended: such a request is always rejected without a change; it is
\* reported as a conflicting selection when the module's prerequisites are
\* selected in column s or earlier, and as unmet prerequisites otherwise.
C5_RejectedAsConflictOrPrerequisites ==
    [][\A u \in Uuids(modules), s \in Semesters :
           (ConflictingRequest(u, s) /\ handleModuleSelection(u, s))
               => /\ selectedModules' = selectedModules
                  /\ outcome' =
                        IF \A code \in FindByUuid(modules, u).prerequisiteCodes :
                               CodeSelectedIn(modules, selectedModules, code, 1..s)
                        THEN "ConflictingSelection"
                        ELSE "PrerequisitesNotMet"]_vars

\* A module with prerequisites, selected in a later semester, was refused as a conflict.
C5_Witness ==
    /\ outcome = "ConflictingSelection"
    /\ \E u \in SelectedSet(selectedModules) :
           FindByUuid(modules, u).prerequisiteCodes # {}

\* C9: a confirmed deselection leaves neither the target nor any module
\* listed in the dialog in any bucket.
C9_ConfirmedRemovesPlan ==
    [][(openDialog /\ outcome' = "confirmed")
           => \A u \in {moduleToDeselect.uuid}
                         \cup {dialogModules[i].uuid : i \in DOMAIN dialogModules} :
                  \A k \in DOMAIN selectedModules' :
                      \A i \in DOMAIN selectedModules'[k] : selectedModules'[k][i] # u]_vars

\* A deselection with dependents was confirmed.
C9_Witness == outcome = "confirmed"

\* C10: applying the confirmed plan again to the resulting Selection Set
\* raises no error and changes nothing.
C10_ApplyTwice ==
    [][(openDialog /\ outcome' = "confirmed")
           => LET again == applyDeselection(modules, selectedModules',
                                            moduleToDeselect, dialogModules)
              IN again.ok /\ again.value = selectedModules']_vars

\* A deselection was confirmed and other modules are still selected.
C10_Witness ==
    /\ outcome = "confirmed"
    /\ Positions(selectedModules) # {}

\* C11: a click on a selected module that has a selected dependent leaves the
\* Selection Set as it was, and so does every step taken while the
\* confirmation dialog is open other than the confirmation itself, the
\* cancellation included.
C11_PendingOrCancelledKeepsSelection ==
    [][/\ \A u \in Uuids(modules), s \in Semesters :
              (/\ u \in SelectedIn(selectedModules, s)
               /\ SelectedDependentsOf(modules, selectedModules,
                                       {FindByUuid(modules, u)}) # {}
               /\ handleModuleSelection(u, s))
                  => selectedModules' = selectedModules
       /\ (openDialog /\ ~handleConfirmDeselection)
              => selectedModules' = selectedModules
       /\ cancelDeselection => selectedModules' = selectedModules]_vars

\* A deselection that needed a confirmation was cancelled: the target and a
\* dependent of it are still selected.
C11_Witness ==
    /\ outcome = "cancelled"
    /\ moduleToDeselect.uuid \in SelectedSet(selectedModules)
    /\ SelectedDependentsOf(modules, selectedModules, {moduleToDeselect}) # {}

\* C20: a click on a selected module in its column removes it at once, the
\* dialog staying closed, exactly when no selected module lists its code as a
\* prerequisite; the removal takes that one occurrence and nothing else.
C20_ImmediateIffNoDependents ==
    [][\A u \in Uuids(modules), s \in Semesters :
           (u \in SelectedIn(selectedModules, s) /\ handleModuleSelection(u, s))
               => IF SelectedDependentsOf(modules, selectedModules,
                                          {FindByUuid(modules, u)}) = {}
                  THEN /\ ~openDialog'
                       /\ DOMAIN selectedModules' = DOMAIN selectedModules
                       /\ selectedModules'[s] = FilterOut(selectedModules[s], u)
                       /\ ~Includes(selectedModules'[s], u)
                       /\ Len(selectedModules'[s]) = Len(selectedModules[s]) - 1
                       /\ \A k \in DOMAIN selectedModules \ {s} :
                              selectedModules'[k] = selectedModules[k]
                  ELSE /\ u \in SelectedIn(selectedModules', s)
                       /\ selectedModules' = selectedModules]_vars

\* A module without selected dependents was removed at once while others stay selected.
C20_Witness ==
    /\ outcome = "deselected"
    /\ Positions(selectedModules) # {}

\* the module lists a prerequisite code that is the code of no catalog module
Unresolvable(mods, m) ==
    \E code \in m.prerequisiteCodes : FindByCode(mods, code) = NoModule

\* C14: a click on a module that lists a prerequisite code naming no catalog
\* module, in any column and with any Selection Set, ends with the alert
\* about the prerequisites, without an exception and with the Selection Set
\* as it was; such a module is never in the Selection Set.
C14_UnresolvableNeverAccepted ==
    /\ [](\A i \in DOMAIN modules :
             Unresolvable(modules, modules[i])
                 => /\ ~(modules[i].uuid \in SelectedSet(selectedModules))
                    /\ \A s \in Semesters :
                           ~arePrerequisitesFulfilled(modules, selectedModules,
                                                      modules[i], s))
    /\ [][\A u \in Uuids(modules), s \in Semesters :
              (/\ Unresolvable(modules, FindByUuid(modules, u))
               /\ handleModuleSelection(u, s))
                  => /\ outcome' = "PrerequisitesNotMet"
                     /\ renderError' = NoError
                     /\ selectedModules' = selectedModules]_vars

\* A module was refused while every prerequisite of it that the catalog
\* knows is selected in the first semester: only the foreign code is unmet.
C14_Witness ==
    /\ outcome = "PrerequisitesNotMet"
    /\ \A i \in DOMAIN modules :
           /\ Unresolvable(modules, modules[i]) <=> (i = Len(modules))
           /\ i < Len(modules) => modules[i].uuid \in SelectedIn(selectedModules, 1)
    /\ modules[Len(modules)].prerequisiteCodes
           = {modules[i].code : i \in 1..(Len(modules) - 1)} \cup {ForeignCode}

\* the module a direct call was made for
CalledModule == FindByUuid(modules, callArg.moduleUuid)

\* C3 as stated: the check holds exactly when every prerequisite code is
\* selected in a semester strictly earlier than the target semester.
C3_FulfilledIffStrictlyEarlier ==
    callArg.fn = "arePrerequisitesFulfilled"
        => (callResult.value <=>
                \A code \in CalledModule.prerequisiteCodes :
                    CodeSelectedIn(modules, selectedModules, code,
                                   1..(callArg.currentSemester - 1)))

\* C3 amended: the check holds exactly when every prerequisite code is
\* selected in the target semester or an earlier one.
C3_FulfilledIffSameOrEarlier ==
    callArg.fn = "arePrerequisitesFulfilled"
        => (callResult.value <=>
                \A code \in CalledModule.prerequisiteCodes :
                    CodeSelectedIn(modules, selectedModules, code,
                                   1..callArg.currentSemester))

\* The check was made for a module whose prerequisite is selected in the
\* target semester only, and it answered true.
C3_Witness ==
    /\ callArg.fn = "arePrerequisitesFulfilled"
    /\ callResult.value
    /\ \E code \in CalledModule.prerequisiteCodes :
           /\ CodeSelectedIn(modules, selectedModules, code, {callArg.currentSemester})
           /\ ~CodeSelectedIn(modules, selectedModules, code,
                              1..(callArg.currentSemester - 1))

\* closure of S under SelectedDependentsOf
RECURSIVE DependentClosure(_, _, _)
DependentClosure(mods, sel, S) ==
    LET bigger == S \cup SelectedDependentsOf(mods, sel, S)
    IN IF bigger = S THEN S ELSE DependentClosure(mods, sel, bigger)

\* selected modules reachable from target in one or more steps through selected modules
ReachableDependents(mods, sel, target) ==
    DependentClosure(mods, sel, SelectedDependentsOf(mods, sel, {target}))

\* codes reachable from code through one or more prerequisite links of the catalog
RECURSIVE PrerequisiteClosure(_, _)
PrerequisiteClosure(mods, S) ==
    LET bigger == S \cup UNION {m.prerequisiteCodes : m \in {x \in ModuleSet(mods) : x.code \in S}}
    IN IF bigger = S THEN S ELSE PrerequisiteClosure(mods, bigger)

\* no module is, directly or transitively, its own prerequisite
Acyclic(mods) ==
    \A m \in ModuleSet(mods) :
        ~(m.code \in PrerequisiteClosure(mods, m.prerequisiteCodes))

\* C7: on an acyclic catalog getDependentModules returns, as a set, exactly
\* the selected modules reachable from the target through selected dependents.
C7_DependentsAreReachableSelected ==
    (callArg.fn = "getDependentModules" /\ Acyclic(modules))
        => /\ callResult.ok
           /\ {callResult.list[i] : i \in DOMAIN callResult.list}
                  = ReachableDependents(modules, selectedModules, CalledModule)

\* The dependents of the head of a chain were computed: the list holds a
\* module that does not name the target itself and is reached through another.
C7_Witness ==
    /\ callArg.fn = "getDependentModules"
    /\ Acyclic(modules)
    /\ \E i \in DOMAIN callResult.list :
           ~(CalledModule.code \in callResult.list[i].prerequisiteCodes)

\* C19: on an acyclic catalog, with a Selection Set in which every selected
\* module has its prerequisites selected in the same or an earlier semester,
\* the list getDependentModules returns holds no module twice.
C19_EachDependentOnce ==
    (/\ callArg.fn = "getDependentModules"
     /\ Acyclic(modules)
     /\ C1_PrerequisitesSameOrEarlier)
        => /\ callResult.ok
           /\ \A i, j \in DOMAIN callResult.list :
                  callResult.list[i].uuid = callResult.list[j].uuid => i = j

\* the called module and another module list each other as prerequisites
MutualPrerequisites ==
    \E m \in ModuleSet(modules) :
        /\ m.uuid # CalledModule.uuid
        /\ m.code \in CalledModule.prerequisiteCodes
        /\ CalledModule.code \in m.prerequisiteCodes

\* C8: with two modules listing each other, getDependentModules returns a list.
C8_CycleTerminates ==
    (callArg.fn = "getDependentModules" /\ MutualPrerequisites) => callResult.ok

\* codes of the prerequisites of an instance of the flat planner
PrerequisiteCodesOf(instance) == {extractModuleCode(uri) : uri \in instance.prerequisites}

\* uuids of the selected instances of a code in the flat Selection Set
SelectedInstancesOf(mods, sel, code) ==
    {sel[i] : i \in {j \in DOMAIN sel : FindInstance(mods, sel[j]).code = code}}

\* the request of C6: instance u is not selected, another instance of its
\* code is, and every prerequisite of u is selected in an earlier semester
MoveRequest(u) ==
    LET instance == FindInstance(modules, u)
    IN /\ ~Includes(selectedModules, u)
       /\ SelectedInstancesOf(modules, selectedModules, instance.code) # {}
       /\ \A code \in PrerequisiteCodesOf(instance) :
              \E v \in SelectedInstancesOf(modules, selectedModules, code) :
                  MinSemester(FindInstance(modules, v).semesters)
                      < MinSemester(instance.semesters)

\* C6: a move leaves exactly one selected occurrence of the code, the
\* clicked instance, and the instance selected before is gone.
C6_MoveReplaces ==
    [][\A u \in Uuids(modules) :
           (MoveRequest(u) /\ handleModuleSelectionFlat(u))
               => LET code == FindInstance(modules, u).code
                  IN /\ Cardinality({i \in DOMAIN selectedModules' :
                            FindInstance(modules, selectedModules'[i]).code = code}) = 1
                     /\ SelectedInstancesOf(modules, selectedModules', code) = {u}
                     /\ Cardinality(SelectedInstancesOf(modules, selectedModules, code)) = 1
                     /\ \A v \in SelectedInstancesOf(modules, selectedModules, code) :
                            ~Includes(selectedModules', v)]_vars

\* An instance replaced the selected instance of the same code.
C6_Witness == outcome = "moved"

\* sum of ects over a set of modules
RECURSIVE SumEcts(_)
SumEcts(S) ==
    IF S = {} THEN 0
    ELSE LET m == CHOOSE x \in S : TRUE IN m.ects + SumEcts(S \ {m})

\* the selected modules of the catalog that declare a subject area with this normalised name
SelectedDeclaring(mods, sel, n) ==
    {m \in ModuleSet(mods) :
        /\ m.uuid \in SelectedSet(sel)
        /\ \E j \in DOMAIN m.subjectArea : normalizeName(m.subjectArea[j]) = n}

\* the Selection Set without uuid u
WithoutModule(sel, u) == [k \in DOMAIN sel |-> FilterOut(sel[k], u)]

\* C12: the progress of every requirement category is the sum of ects over
\* exactly the selected modules that declare the category, and removing one
\* selected module lowers each category it declares by its ects and leaves
\* the other categories alone.
C12_ProgressIsSumOverSelected ==
    callArg.fn = "calculateSubjectAreaProgress"
        => \A i \in DOMAIN studyRequirements :
               LET n == normalizeName(studyRequirements[i].name)
               IN /\ callResult.progress[n]
                         = SumEcts(SelectedDeclaring(modules, selectedModules, n))
                  /\ \A m \in ModuleSet(modules) :
                         m.uuid \in SelectedSet(selectedModules)
                             => calculateSubjectAreaProgress(studyRequirements, modules,
                                    WithoutModule(selectedModules, m.uuid))[n]
                                  = callResult.progress[n]
                                      - (IF m \in SelectedDeclaring(modules, selectedModules, n)
                                         THEN m.ects ELSE 0)

\* C13: a row of the progress drawer is flagged exactly when its credit
\* total is strictly below minCredits or strictly above maxCredits; a total
\* equal to either bound is not flagged.
C13_FlaggedIffStrictlyOutside ==
    callArg.fn = "renderProgressDrawer"
        => \A i \in DOMAIN callResult.rows :
               LET row == callResult.rows[i]
                   total == calculateSubjectAreaProgress(studyRequirements, modules,
                                selectedModules)[normalizeName(studyRequirements[i].name)]
               IN /\ row.currentCredits = total
                  /\ row.isOutOfLimits <=>
                         (total < studyRequirements[i].minCredits
                              \/ total > studyRequirements[i].maxCredits)
                  /\ total \in {studyRequirements[i].minCredits,
                                studyRequirements[i].maxCredits}
                         => ~row.isOutOfLimits

\* The drawer shows one category whose total equals its minimum and one whose
\* total equals its maximum, neither flagged.
C13_Witness ==
    /\ callArg.fn = "renderProgressDrawer"
    /\ \E i \in DOMAIN callResult.rows :
           /\ callResult.rows[i].currentCredits = callResult.rows[i].area.minCredits
           /\ ~callResult.rows[i].isOutOfLimits
    /\ \E i \in DOMAIN callResult.rows :
           /\ callResult.rows[i].currentCredits = callResult.rows[i].area.maxCredits
           /\ ~callResult.rows[i].isOutOfLimits

\* C15: a step that changes the Selection Set while the storage accepts
\* writes leaves its serialization in the item 'selectedModules', and as
\* long as no exception has escaped, the item parses to the Selection Set
\* held in memory.
C15_StorageFollowsSelection ==
    /\ [][(selectedModules' # selectedModules /\ storageWritable)
              => /\ storage' = JSONstringify(selectedModules')
                 /\ JSONparse(storage').value = selectedModules']_vars
    /\ []((mounted /\ renderError = NoError)
              => /\ storage = JSONstringify(selectedModules)
                 /\ JSONparse(storage).ok
                 /\ JSONparse(storage).value = selectedModules)

\* A module of the loaded catalog was selected and the stored item lists it.
C15_Witness ==
    /\ outcome = "selected"
    /\ \E s \in DOMAIN selectedModules :
           \E u \in SelectedIn(selectedModules, s) : u \in Uuids(modules)
    /\ storage = JSONstringify(selectedModules)
    /\ Len(storage.entries) > 0

\* a step of one of the operations that select or deselect, or the hydration
\* when the planner starts
SelectionOperation ==
    \/ mountEffects
    \/ \E u \in Uuids(modules), i \in DOMAIN availableSemesters :
           handleModuleSelection(u, availableSemesters[i])
    \/ handleConfirmDeselection

\* C16 as stated: the Selection Set changes only in a selection or a
\* deselection (or the hydration at startup); no other action changes it.
C16_OnlySelectionOperations ==
    [][selectedModules' # selectedModules => SelectionOperation]_vars

\* C16 amended: the Selection Set changes only in a selection, a
\* deselection, the hydration at startup, or an accepted change of the number
\* of semesters, which empties it; changing the first-semester type, the
\* study program, the layout, the search term or a hide filter, and a
\* catalog reload, leave it as it is.
C16_OnlySelectionOrSemesterCount ==
    [][/\ selectedModules' # selectedModules
          => \/ SelectionOperation
             \/ /\ \E value \in ParsedNumbers : handleSemesterCountChange(value)
                /\ selectedModules' = <<>>
       /\ (\/ firstSemesterType' # firstSemesterType
           \/ selectedStudyProgramUri' # selectedStudyProgramUri
           \/ layout' # layout
           \/ searchTerm' # searchTerm
           \/ hideUnfulfilled' # hideUnfulfilled
           \/ hideSelected' # hideSelected
           \/ modules' # modules)
          => selectedModules' = selectedModules]_vars

\* A module was selected, then the first-semester type, the layout, the
\* search term and the hide filters were changed and the catalog arrived
\* again: the Selection Set still holds the module.
C16_Witness ==
    /\ Positions(selectedModules) # {}
    /\ firstSemesterType = "HWS"
    /\ layout = "2x"
    /\ searchTerm = "a"
    /\ hideUnfulfilled
    /\ hideSelected
    /\ Len(fetches) = 2
    /\ fetches[2].modules = "resolved"
    /\ modules = modulesWithUUID(2, BindingsOf(selectedStudyProgramUri))

\* C18: no exception escapes the planner, whatever the stored item holds at
\* startup and whether or not the storage accepts writes; with an item that
\* does not parse the planner starts with an empty Selection Set.
C18_PersistenceFailureIsSwallowed ==
    /\ renderError = NoError
    /\ (mounted /\ storage = Malformed) => selectedModules = <<>>

\* the values the fetch effect depends on
FetchTrigger == <<selectedStudyProgramUri, numberOfSemesters, firstSemesterType>>

\* a step of one of the three handlers with which the user changes a trigger
UserChangesTrigger ==
    \/ \E uri \in {ProgramList[i] : i \in DOMAIN ProgramList} : selectStudyProgram(uri)
    \/ \E value \in ParsedNumbers : handleSemesterCountChange(value)
    \/ \E value \in {"FSS", "HWS"} : handleSemesterTypeChange(value)

\* C17: the step in which a getModules promise is rejected sets the load
\* error, clears the loading flag, keeps the catalog and starts no fetch; a
\* fetch starts only in a step that changes a trigger, and after the first
\* fetch only in a step of the user; every settlement clears the loading
\* flag, every started fetch settles, and a loading flag that is set is
\* cleared later.
C17_FailedFetchEndsLoading ==
    /\ [][\A f \in DOMAIN fetches :
              (fetches[f].modules = "pending" /\ fetches'[f].modules # "pending")
                  => /\ ~isLoading'
                     /\ Len(fetches') = Len(fetches)
                     /\ fetches'[f].modules = "rejected"
                            => /\ error' # NoError
                               /\ modules' = modules]_vars
    /\ [][Len(fetches') # Len(fetches)
              => /\ FetchTrigger' # FetchTrigger
                 /\ Len(fetches') = Len(fetches) + 1
                 /\ fetches # <<>> => UserChangesTrigger]_vars
    /\ \A f \in 1..MaxFetches :
           (f \in DOMAIN fetches)
               ~> (f \in DOMAIN fetches /\ fetches[f].modules # "pending" /\ ~isLoading)
    /\ isLoading ~> ~isLoading

\* The only fetch started so far was rejected: the error is shown, nothing
\* is loading and no second fetch was started.
C17_Witness ==
    /\ Len(fetches) = 1
    /\ fetches[1].modules = "rejected"
    /\ error # NoError
    /\ ~isLoading
    /\ modules = <<>>

\* C21: the progress has an entry for every requirement category; the
\* entry is 0 when no selected module of the catalog declares the category,
\* and every entry is 0 for the empty Selection Set.
C21_EntryForEveryCategory ==
    callArg.fn = "calculateSubjectAreaProgress"
        => /\ DOMAIN callResult.progress
                  = {normalizeName(studyRequirements[i].name) : i \in DOMAIN studyRequirements}
           /\ \A i \in DOMAIN studyRequirements :
                  LET n == normalizeName(studyRequirements[i].name)
                  IN /\ n \in DOMAIN callResult.progress
                     /\ SelectedDeclaring(modules, selectedModules, n) = {}
                            => callResult.progress[n] = 0
                     /\ calculateSubjectAreaProgress(studyRequirements, modules, <<>>)[n] = 0
                     /\ Positions(selectedModules) = {} => callResult.progress[n] = 0

\* The progress of two categories was computed with a module selected that
\* declares one of them: that one has credits, the other has 0.
C21_Witness ==
    /\ callArg.fn = "calculateSubjectAreaProgress"
    /\ Len(studyRequirements) = 2
    /\ \E n \in DOMAIN callResult.progress : callResult.progress[n] > 0
    /\ \E n \in DOMAIN callResult.progress :
           /\ callResult.progress[n] = 0
           /\ SelectedDeclaring(modules, selectedModules, n) = {}
    /\ Positions(selectedModules) # {}

\* the credits the progress drawer shows for requirement i
CreditsOf(i) ==
    calculateSubjectAreaProgress(studyRequirements, modules, selectedModules)
        [normalizeName(studyRequirements[i].name)]

\* C22: whatever the credit totals and the bounds of the requirements, a
\* click on a module that is selected nowhere and whose prerequisite codes
\* are all selected in the same or an earlier semester puts it into the
\* column, a click on a selected module without selected dependents removes
\* it, and a confirmed deselection removes its target.
C22_BoundsNeverBlock ==
    [][/\ \A u \in Uuids(modules), s \in Semesters :
              handleModuleSelection(u, s)
                  => /\ (/\ ~(u \in SelectedSet(selectedModules))
                         /\ \A code \in FindByUuid(modules, u).prerequisiteCodes :
                                CodeSelectedIn(modules, selectedModules, code, 1..s))
                            => /\ outcome' = "selected"
                               /\ selectedModules'
                                      = AssignToSemester(selectedModules, s, u)
                     /\ (/\ u \in SelectedIn(selectedModules, s)
                         /\ SelectedDependentsOf(modules, selectedModules,
                                                 {FindByUuid(modules, u)}) = {})
                            => /\ outcome' = "deselected"
                               /\ ~(u \in SelectedSet(selectedModules'))
       /\ handleConfirmDeselection
              => ~(moduleToDeselect.uuid \in SelectedSet(selectedModules'))]_vars

\* A selection was accepted that lifted the credits of a requirement above
\* its maximum.
C22_Witness ==
    /\ outcome = "selected"
    /\ \E i \in DOMAIN studyRequirements :
           CreditsOf(i) > studyRequirements[i].maxCredits

\* C23: what getModules returns for program P are bindings of P, either
\* those of the response to the request of this call or those an earlier
\* successful request for P stored; every entry of the cache holds what the
\* function and program of its key fetched; a call that finds an entry
\* issues no request and a call that finds none issues one; a failed
\* request stores nothing.
C23_CacheIsPerProgram ==
    /\ []((callArg.fn = "getModules" /\ callResult.ok)
              => /\ callResult.value.kind = "getModules"
                 /\ callResult.value.program = callArg.studyProgramUri)
    /\ [](\A P \in ProgramUris :
             /\ modulesCacheKey(P) \in DOMAIN cache
                    => /\ cache[modulesCacheKey(P)].kind = "getModules"
                       /\ cache[modulesCacheKey(P)].program = P
                       /\ \E r \in DOMAIN requests :
                              /\ requests[r].fn = "getModules"
                              /\ requests[r].studyProgramUri = P
                              /\ requests[r].status = "settled"
             /\ requirementsCacheKey(P) \in DOMAIN cache
                    => /\ cache[requirementsCacheKey(P)].kind = "getStudyRequirements"
                       /\ cache[requirementsCacheKey(P)].program = P)
    /\ [][\A P \in ProgramUris :
              getModules(P)
                  => IF modulesCacheKey(P) \in DOMAIN cache
                     THEN /\ requests' = requests
                          /\ callResult'.value = cache[modulesCacheKey(P)]
                     ELSE /\ Len(requests') = Len(requests) + 1
                          /\ requests'[Len(requests')].studyProgramUri = P
                          /\ requests'[Len(requests')].status = "pending"]_vars
    /\ [][\A r \in DOMAIN requests :
              (requests[r].status = "pending" /\ requests'[r].status = "settled")
                  => IF callResult'.ok
                     THEN /\ cache'[requests[r].key] = callResult'.value
                          /\ callResult'.value.program = requests[r].studyProgramUri
                     ELSE cache' = cache]_vars

\* Two requests were issued for the same program, the first one settled (it
\* failed or its entry expired), and with the bindings of both programs in
\* the cache getModules has answered a call from the cache.
C23_Witness ==
    /\ callArg.fn = "getModules"
    /\ callResult.ok
    /\ callResult.from = "cache"
    /\ \A P \in ProgramUris : modulesCacheKey(P) \in DOMAIN cache
    /\ \E r, q \in DOMAIN requests :
           /\ r < q
           /\ requests[r].fn = "getModules"
           /\ requests[q].fn = "getModules"
           /\ requests[r].studyProgramUri = requests[q].studyProgramUri
           /\ requests[r].status = "settled"

\* C24: once a catalog is loaded and no fetch is pending, every uuid of the
\* Selection Set is the uuid of a module of the catalog.
C24_SelectionWithinCatalog ==
    (/\ mounted
     /\ renderError = NoError
     /\ ~isLoading
     /\ modules # <<>>
     /\ \A f \in DOMAIN fetches : fetches[f].modules # "pending")
        => SelectedSet(selectedModules) \subseteq Uuids(modules)

\* C25: once every fetch that was started has resolved, the catalog held in
\* state lists the modules of the study program that is selected.
C25_LatestProgramWins ==
    (/\ fetches # <<>>
     /\ \A f \in DOMAIN fetches : fetches[f].modules = "resolved")
        => [i \in DOMAIN modules |-> modules[i].code]
               = [i \in DOMAIN BindingsOf(selectedStudyProgramUri) |->
                      BindingsOf(selectedStudyProgramUri)[i].code]

\* the (semester, module) pairs of a Selection Set
Pairs(sel) == {<<p[1], sel[p[1]][p[2]]>> : p \in Positions(sel)}

\* C26: after a click that selected module u in column s, a click on u in s
\* finds no selected dependent of u, and the removal it queues gives the
\* Selection Set the (semester, module) pairs it had before the selection.
C26_SelectThenDeselect ==
    [][\A u \in Uuids(modules), s \in Semesters :
           (handleModuleSelection(u, s) /\ outcome' = "selected")
               => LET dependentModules ==
                          getDependentModules(modules, selectedModules', u)
                      removal == deselectModule(modules, selectedModules', u, s,
                                                [ok |-> TRUE, ops |-> <<>>])
                      after == ApplyRemovals([ok |-> TRUE, value |-> selectedModules'],
                                             removal.ops, 1)
                  IN /\ <<s, u>> \in Pairs(selectedModules')
                     /\ ~(<<s, u>> \in Pairs(selectedModules))
                     /\ dependentModules.ok
                     /\ dependentModules.list = <<>>
                     /\ removal.ok
                     /\ after.ok
                     /\ Pairs(after.value) = Pairs(selectedModules)]_vars

\* A module was selected in a column of its own and deselected again: the
\* column is empty and the modules selected before are still there.
C26_Witness ==
    /\ outcome = "deselected"
    /\ \E s \in DOMAIN selectedModules : selectedModules[s] = <<>>
    /\ Positions(selectedModules) # {}

\* C27: the number of semesters is always one of 1..12; a run of
\* handleSemesterCountChange with NaN, with a value of 0 or less or with a
\* value above 12 changes neither the number nor the Selection Set, a run
\* with a value in 1..12 sets the number and empties the Selection Set, and
\* nothing else changes the number.
C27_SemesterCountInRange ==
    /\ [](numberOfSemesters \in 1..12)
    /\ [][/\ \A value \in CountInputs :
                handleSemesterCountChange(value)
                    => IF value.isNaN \/ value.number <= 0 \/ value.number > 12
                       THEN /\ numberOfSemesters' = numberOfSemesters
                            /\ selectedModules' = selectedModules
                       ELSE /\ numberOfSemesters' = value.number
                            /\ selectedModules' = <<>>
          /\ numberOfSemesters' # numberOfSemesters
                => /\ \E value \in CountInputs :
                          /\ ~value.isNaN
                          /\ value.number = numberOfSemesters'
                          /\ handleSemesterCountChange(value)
                   /\ selectedModules' = <<>>]_vars

\* The number of semesters was set to 12 and the catalog arrived for twelve
\* columns: the Selection Set is empty and stored as such.
C27_Witness ==
    /\ numberOfSemesters = 12
    /\ Len(availableSemesters) = 12
    /\ selectedModules = <<>>
    /\ storage = JSONstringify(<<>>)

\* C28: no uuid occurs at more than one place of the Selection Set, be it
\* in two buckets or twice in one bucket.
C28_EachUuidAtOnePlace ==
    \A p, q \in Positions(selectedModules) :
        selectedModules[p[1]][p[2]] = selectedModules[q[1]][q[2]] => p = q

\* Two modules share a bucket, another bucket holds a module as well, and a
\* click on a module in a column other than its own was refused.
C28_Witness ==
    /\ outcome = "ConflictingSelection"
    /\ \E s \in DOMAIN selectedModules : Len(selectedModules[s]) >= 2
    /\ Cardinality({s \in DOMAIN selectedModules : selectedModules[s] # <<>>}) >= 2

\* C29: semester 1 has the configured first-semester type, the type of
\* semester n+1 differs from that of semester n and the type of semester
\* n+2 equals it, for the function itself and for the columns rendered.
C29_TypesAlternate ==
    /\ getSemesterType(1) = firstSemesterType
    /\ \A n \in 1..MaxSemesterNumber :
          /\ getSemesterType(n + 1) # getSemesterType(n)
          /\ getSemesterType(n + 2) = getSemesterType(n)
    /\ callArg.fn = "getSemesterType" =>
          \A i \in DOMAIN callResult.types :
              /\ callArg.semesters[i] = 1 =>
                     callResult.types[i] = callArg.firstSemesterType
              /\ \A j \in DOMAIN callResult.types :
                     /\ callArg.semesters[j] = callArg.semesters[i] + 1 =>
                            callResult.types[j] # callResult.types[i]
                     /\ callArg.semesters[j] = callArg.semesters[i] + 2 =>
                            callResult.types[j] = callResult.types[i]

\* Twelve columns were rendered with HWS as the first semester type: the
\* first column is HWS, the last one FSS.
C29_Witness ==
    /\ callArg.fn = "getSemesterType"
    /\ callArg.firstSemesterType = "HWS"
    /\ Len(callResult.types) = Len(DecimalNumerals)
    /\ callResult.types[1] = "HWS"
    /\ callResult.types[Len(DecimalNumerals)] = "FSS"

\* The query of a posted body: the member query of the object the body
\* is the JSON text of, if there is one.
PostedQuery(requestText) ==
    IF requestText.kind = "json" /\ requestText.value.type = "object"
           /\ requestText.value.hasQuery
    THEN requestText.value.query
    ELSE Undefined

\* Endpoint, user name and password are configured.
Configured(env) ==
    /\ ~Falsy(env.SPARQL_ENDPOINT)
    /\ ~Falsy(env.GRAPH_USERNAME)
    /\ ~Falsy(env.GRAPH_PASSWORD)

\* C30: POST answers 500 without contacting the endpoint when it is not
\* configured, 400 without contacting it when the query of the body is
\* missing or no string, 500 when the text the endpoint sent is no JSON, and
\* 200 with the data of the endpoint only otherwise.
C30_ForwardsOnlyAfterValidation ==
    callArg.fn = "POST" =>
        /\ ~Configured(callArg.env) =>
               callResult.status = 500 /\ ~callResult.forwarded
        /\ Configured(callArg.env) /\ PostedQuery(callArg.body).type # "string" =>
               callResult.status = 400 /\ ~callResult.forwarded
        /\ callResult.forwarded =>
               Configured(callArg.env) /\ PostedQuery(callArg.body).type = "string"
        /\ (callResult.forwarded /\ callArg.upstream.kind = "response"
               /\ callArg.upstream.text.kind # "json") => callResult.status = 500
        /\ callResult.status = 200 =>
               /\ callResult.forwarded
               /\ callArg.upstream.kind = "response"
               /\ callArg.upstream.text = JsonText(callResult.data)

====
